---------------------------- MODULE Spec2Model ----------------------------
(***************************************************************************)
(* A model of the cipher breakers of ponderada-quebra-cifras:              *)
(*   src/src/utils/ngram_scorer.py          NgramScorer                    *)
(*   src/src/utils/frequency_analyzer.py    FrequencyAnalyzer              *)
(*   src/src/breakers/substitution_breaker.py  SubstitutionBreaker         *)
(*   src/src/breakers/permutation_breaker.py   PermutationBreaker          *)
(*   src/scripts/cipher_generator.py        columnar_encrypt,              *)
(*                                          substitution_encrypt           *)
(*                                                                         *)
(* Conventions.  A Python str is a sequence of one-character strings; a    *)
(* Python list is a sequence whose element i (0-based) is at index i+1; a  *)
(* Python dict is a function whose DOMAIN is the set of keys.  Floating    *)
(* point quantities are carried as integers in a fixed unit that is named  *)
(* where each is introduced.  An exception leaving a call is recorded in   *)
(* the caller's pc ("raised") together with the exception's type.          *)
(***************************************************************************)
EXTENDS Integers, Sequences, FiniteSets, TLC

VARIABLES
    \* columnar round trip: columnar_encrypt then _columnar_decrypt
    rt_pc, rt_plain, rt_key, rt_cipher, rt_out,
    \* substitution round trip: substitution_encrypt then _decrypt
    sr_pc, sr_plain, sr_mapping, sr_cipher, sr_out,
    \* NgramScorer: the corpus file it is constructed from, self.n,
    \* self.ngrams, self.floor, the exception its constructor raised (or
    \* "none"), and the text handed to score() with the results of the calls
    sc_pc, sc_file, sc_n, sc_ngrams, sc_floor, sc_raised, sc_text, sc_results,
    \* FrequencyAnalyzer: the unigram CSV it is constructed from,
    \* self.char_frequencies, self.freq_order, the text its methods are called
    \* on, the methods called so far, and what create_frequency_mapping and
    \* calculate_index_of_coincidence returned
    fa_pc, fa_csv, fa_char_frequencies, fa_freq_order, fa_text, fa_called,
    fa_mapping, fa_ic,
    \* PermutationBreaker.break_cipher(ciphertext, key_length): the arguments,
    \* the permutations the loop of _brute_force has still to yield, its
    \* best_key, best_text, best_score, the exception raised (or "none") and
    \* the (text, key) returned; pb_plain and pb_true_key are the text and key
    \* the ciphertext was encrypted from (<<>> when it was not), pb_tried the
    \* keys handed to _columnar_decrypt so far
    pb_pc, pb_ciphertext, pb_key_length, pb_perms, pb_best_key, pb_best_text,
    pb_best_score, pb_raised, pb_result, pb_plain, pb_true_key, pb_tried,
    \* SubstitutionBreaker: its configuration (self.max_iterations,
    \* self.num_restarts, self.use_soft_climbing) and the arguments of
    \* break_cipher (ciphertext, use_frequency_initial)
    sb_max_iterations, sb_num_restarts, sb_use_soft_climbing,
    bc_ciphertext, bc_use_frequency_initial,
    \* break_cipher: where it is, the state of the current run (INIT,
    \* SEARCHING, DONE), the number of runs started, the initial mapping of the
    \* current run and the method that made it (create_frequency_mapping or
    \* _random_mapping), its best_mapping, best_text, best_score, the exception
    \* raised (or "none"), the (text, mapping, score) returned, and the result
    \* of every finished run in order
    bc_pc, bc_run_state, bc_runs_started, bc_initial_mapping, bc_initial_from,
    bc_best_mapping, bc_best_text, bc_best_score, bc_raised, bc_result, bc_run_results,
    \* the locals of the current _hill_climb run (neighbor_mapping and
    \* neighbor_score as the last iteration left them)
    hc_current_mapping, hc_current_text, hc_current_score, hc_best_mapping,
    hc_best_text, hc_best_score, hc_no_improvement_count, hc_acceptance_prob,
    hc_iteration, hc_neighbor_mapping, hc_neighbor_score,
    \* break_cipher in its frequency-only mode (break_cipher_frequency_only): the
    \* ciphertext, the initial mapping, best_mapping, best_text, best_score, the
    \* number of iterations made, the (text, mapping, chi) returned, and the
    \* test_mapping of the last iteration
    fo_pc, fo_ciphertext, fo_mapping, fo_best_mapping, fo_best_text,
    fo_best_score, fo_iteration, fo_result, fo_test_mapping,
    \* the annealing branch of PermutationBreaker.break_cipher: its arguments, the
    \* locals of the current _simulated_annealing run (temp, current_key,
    \* current_score, best_key, best_text, best_score, and i, j, text, score of
    \* the iteration under way), the iterations made, current_key as it was
    \* before the iteration under way, the exception raised (or "none"), the
    \* runs finished with the (key, text, score) of each, best_overall_key,
    \* best_overall_text, best_overall_score, and the (text, key) returned
    sa_pc, sa_ciphertext, sa_key_length, sa_temp, sa_current_key,
    sa_current_score, sa_best_key, sa_best_text, sa_best_score, sa_i, sa_j,
    sa_text, sa_score, sa_iteration, sa_key_before, sa_raised, sa_runs,
    sa_run_results, sa_best_overall_key, sa_best_overall_text,
    sa_best_overall_score, sa_result

vars_rt == <<rt_pc, rt_plain, rt_key, rt_cipher, rt_out>>
vars_sr == <<sr_pc, sr_plain, sr_mapping, sr_cipher, sr_out>>

vars_sc == <<sc_pc, sc_file, sc_n, sc_ngrams, sc_floor, sc_raised, sc_text, sc_results>>

vars_fa == <<fa_pc, fa_csv, fa_char_frequencies, fa_freq_order, fa_text, fa_called,
             fa_mapping, fa_ic>>

vars_pb == <<pb_pc, pb_ciphertext, pb_key_length, pb_perms, pb_best_key, pb_best_text,
             pb_best_score, pb_raised, pb_result, pb_plain, pb_true_key, pb_tried>>

vars_cfg == <<sb_max_iterations, sb_num_restarts, sb_use_soft_climbing, bc_ciphertext,
              bc_use_frequency_initial>>
vars_bc == <<bc_pc, bc_run_state, bc_runs_started, bc_initial_mapping, bc_initial_from,
             bc_best_mapping,
             bc_best_text, bc_best_score, bc_raised, bc_result, bc_run_results>>
vars_hc == <<hc_current_mapping, hc_current_text, hc_current_score, hc_best_mapping,
             hc_best_text, hc_best_score, hc_no_improvement_count, hc_acceptance_prob,
             hc_iteration, hc_neighbor_mapping, hc_neighbor_score>>
vars_sb == <<vars_cfg, vars_bc, vars_hc>>

vars_fo == <<fo_pc, fo_ciphertext, fo_mapping, fo_best_mapping, fo_best_text,
              fo_best_score, fo_iteration, fo_result, fo_test_mapping>>

vars_sa == <<sa_pc, sa_ciphertext, sa_key_length, sa_temp, sa_current_key,
              sa_current_score, sa_best_key, sa_best_text, sa_best_score, sa_i, sa_j,
              sa_text, sa_score, sa_iteration, sa_key_before, sa_raised, sa_runs,
              sa_run_results, sa_best_overall_key, sa_best_overall_text,
              sa_best_overall_score, sa_result>>

vars == <<vars_rt, vars_sr, vars_sc, vars_fa, vars_pb, vars_sb, vars_fo, vars_sa>>

\* what each component leaves alone: the other components
not_rt == <<vars_sr, vars_sc, vars_fa, vars_pb, vars_sb, vars_fo, vars_sa>>
not_sr == <<vars_rt, vars_sc, vars_fa, vars_pb, vars_sb, vars_fo, vars_sa>>
not_sc == <<vars_rt, vars_sr, vars_fa, vars_pb, vars_sb, vars_fo, vars_sa>>
not_fa == <<vars_rt, vars_sr, vars_sc, vars_pb, vars_sb, vars_fo, vars_sa>>
not_pb == <<vars_rt, vars_sr, vars_sc, vars_fa, vars_sb, vars_fo, vars_sa>>
not_sb == <<vars_rt, vars_sr, vars_sc, vars_fa, vars_pb, vars_fo, vars_sa>>
not_fo == <<vars_rt, vars_sr, vars_sc, vars_fa, vars_pb, vars_sb, vars_sa>>
not_sa == <<vars_rt, vars_sr, vars_sc, vars_fa, vars_pb, vars_sb, vars_fo>>

-----------------------------------------------------------------------------
(* Characters and str methods *)

\* the lower-case letters the inputs of the model may hold, with their
\* upper-case forms
LowerToUpper == [a |-> "A", d |-> "D", e |-> "E", n |-> "N"]

LowerLetters == {"a", "d", "e", "n"}

\* string.ascii_uppercase, as far as the model's inputs use it: five of the
\* 26 letters in alphabetical order, chosen so that the letter tables of the
\* code (DEFAULT_CHAR_FREQUENCIES, common_bigrams) have entries among them
AsciiUppercase == <<"A", "D", "E", "N", "T">>

UpperLetters == {AsciiUppercase[i] : i \in 1..Len(AsciiUppercase)}

\* str.upper() on one character
UpperChar(ch) ==
    CASE ch = "a" -> LowerToUpper.a
      [] ch = "d" -> LowerToUpper.d
      [] ch = "e" -> LowerToUpper.e
      [] ch = "n" -> LowerToUpper.n
      [] OTHER -> ch

\* str.upper()
Upper(s) == [i \in 1..Len(s) |-> UpperChar(s[i])]

\* str.isalpha() on one character
IsAlpha(ch) == ch \in UpperLetters \cup LowerLetters

\* str.replace(ch, '')
RECURSIVE Remove(_, _)
Remove(s, ch) ==
    IF s = <<>> THEN <<>>
    ELSE IF Head(s) = ch THEN Remove(Tail(s), ch)
    ELSE <<Head(s)>> \o Remove(Tail(s), ch)

\* all sequences over S of length at most n
RECURSIVE SeqsUpTo(_, _)
SeqsUpTo(S, n) ==
    IF n = 0 THEN {<<>>}
    ELSE LET shorter == SeqsUpTo(S, n - 1)
         IN shorter \cup {Append(s, x) : s \in {t \in shorter : Len(t) = n - 1}, x \in S}

\* math.ceil(a / b) for a >= 0, b > 0
CeilDiv(a, b) == (a + b - 1) \div b

\* the permutations of 0..k-1, as lists
Permutations0(k) ==
    {p \in [1..k -> 0..(k - 1)] : \A i, j \in 1..k : p[i] = p[j] => i = j}

-----------------------------------------------------------------------------
(* Columnar transposition: scripts/cipher_generator.py columnar_encrypt and *)
(* PermutationBreaker._columnar_decrypt                                     *)

\* sorted(range(n_cols), key=lambda x: key[x]): the column positions in
\* ascending order of their key value (stable)
sorted_positions_bykey(key) ==
    LET n == Len(key)
        Before(y, x) == key[y + 1] < key[x + 1] \/ (key[y + 1] = key[x + 1] /\ y < x)
        Rank(x) == Cardinality({y \in 0..(n - 1) : Before(y, x)})
    IN [r \in 1..n |-> CHOOSE x \in 0..(n - 1) : Rank(x) = r - 1]

\* the key read as the column order itself (the inverse permutation confused
\* with the permutation)
sorted_positions_askey(key) == key

\* sorted_positions of _columnar_decrypt
sorted_positions(key) == sorted_positions_bykey(key)

\* the col_order values of the reading loop of columnar_encrypt
col_orders(key) == sorted_positions_bykey(key)

\* the grid of columnar_encrypt: row-major fill, '' past the end of the text
encrypt_grid(plaintext, n_cols) ==
    LET n_rows == CeilDiv(Len(plaintext), n_cols)
    IN [row \in 0..(n_rows - 1) |->
          [col \in 0..(n_cols - 1) |->
              IF row * n_cols + col < Len(plaintext)
              THEN plaintext[row * n_cols + col + 1] ELSE ""]]

\* one column of a grid read top to bottom, empty cells skipped
RECURSIVE read_column(_, _, _, _)
read_column(grid, col, row, n_rows) ==
    IF row >= n_rows THEN <<>>
    ELSE (IF grid[row][col] # "" THEN <<grid[row][col]>> ELSE <<>>)
         \o read_column(grid, col, row + 1, n_rows)

RECURSIVE read_columns(_, _, _)
read_columns(grid, order, n_rows) ==
    IF order = <<>> THEN <<>>
    ELSE read_column(grid, Head(order), 0, n_rows)
         \o read_columns(grid, Tail(order), n_rows)

columnar_encrypt(text, key) ==
    LET plaintext == Remove(Upper(text), " ")
        n_cols == Len(key)
        n_rows == CeilDiv(Len(plaintext), n_cols)
    IN read_columns(encrypt_grid(plaintext, n_cols), col_orders(key), n_rows)

\* col_lengths of _columnar_decrypt: the columns at positions >= remainder are
\* one short when the length is no multiple of n_cols
col_lengths(len, n_cols) ==
    LET n_rows == CeilDiv(len, n_cols)
        remainder == len % n_cols
    IN [col \in 0..(n_cols - 1) |->
          IF remainder # 0 /\ col >= remainder THEN n_rows - 1 ELSE n_rows]

\* the fill loop of _columnar_decrypt: the columns in key order, each taking
\* the next col_lengths[col_pos] characters of the ciphertext
RECURSIVE fill_columns(_, _, _, _, _)
fill_columns(grid, order, idx, ciphertext, lengths) ==
    IF order = <<>> THEN grid
    ELSE LET col_pos == Head(order)
             filled == [row \in DOMAIN grid |->
                          IF row < lengths[col_pos]
                          THEN [grid[row] EXCEPT ![col_pos] = ciphertext[idx + row + 1]]
                          ELSE grid[row]]
         IN fill_columns(filled, Tail(order), idx + lengths[col_pos], ciphertext, lengths)

\* ''.join(row) for one row, then over the rows
RECURSIVE join_cells(_, _, _)
join_cells(cells, col, n_cols) ==
    IF col >= n_cols THEN <<>>
    ELSE (IF cells[col] # "" THEN <<cells[col]>> ELSE <<>>)
         \o join_cells(cells, col + 1, n_cols)

RECURSIVE join_rows(_, _, _, _)
join_rows(grid, row, n_rows, n_cols) ==
    IF row >= n_rows THEN <<>>
    ELSE join_cells(grid[row], 0, n_cols) \o join_rows(grid, row + 1, n_rows, n_cols)

\* PermutationBreaker._columnar_decrypt for len(key) > 0
_columnar_decrypt(text, key) ==
    LET ciphertext == Remove(Remove(Upper(text), " "), "\n")
        n_cols == Len(key)
        n_rows == CeilDiv(Len(ciphertext), n_cols)
        empty == [row \in 0..(n_rows - 1) |-> [col \in 0..(n_cols - 1) |-> ""]]
        grid == fill_columns(empty, sorted_positions(key), 0, ciphertext,
                             col_lengths(Len(ciphertext), n_cols))
    IN join_rows(grid, 0, n_rows, n_cols)

-----------------------------------------------------------------------------
(* Monoalphabetic substitution: scripts/cipher_generator.py                 *)
(* substitution_encrypt and SubstitutionBreaker._decrypt                    *)

\* the number of letters of self.letters / self.alphabet in the model (26 in
\* the program): the substitution alphabet is the first NLetters letters
NLetters == 3

\* self.letters, self.alphabet: string.ascii_uppercase
letters == SubSeq(AsciiUppercase, 1, NLetters)

LetterSet == {letters[i] : i \in 1..NLetters}

\* dict.get(key, default)
dict_get(d, key, default) == IF key \in DOMAIN d THEN d[key] ELSE default

\* the loop body shared by substitution_encrypt and _decrypt, over an already
\* upper-cased text: a non-alphabetic character is dropped instead of kept
RECURSIVE translate_dropping(_, _)
translate_dropping(s, mapping) ==
    IF s = <<>> THEN <<>>
    ELSE (IF IsAlpha(Head(s)) THEN <<dict_get(mapping, Head(s), Head(s))>> ELSE <<>>)
         \o translate_dropping(Tail(s), mapping)

\* the loop body shared by substitution_encrypt and _decrypt, over an already
\* upper-cased text
RECURSIVE translate(_, _)
translate(s, mapping) ==
    IF s = <<>> THEN <<>>
    ELSE (IF IsAlpha(Head(s)) THEN <<dict_get(mapping, Head(s), Head(s))>>
          ELSE <<Head(s)>>)
         \o translate(Tail(s), mapping)

substitution_encrypt(plaintext, mapping) == translate(Upper(plaintext), mapping)

\* SubstitutionBreaker._decrypt
_decrypt(ciphertext, mapping) == translate(Upper(ciphertext), mapping)

\* the bijections of the alphabet
Bijections ==
    {m \in [LetterSet -> LetterSet] : \A x, y \in LetterSet : m[x] = m[y] => x = y}

IsBijection(m) ==
    /\ DOMAIN m = LetterSet
    /\ \A x \in LetterSet : m[x] \in LetterSet
    /\ \A x, y \in LetterSet : m[x] = m[y] => x = y

\* the inverse of a bijection of the alphabet
Inverse(m) == [y \in LetterSet |-> CHOOSE x \in LetterSet : m[x] = y]

-----------------------------------------------------------------------------
(* The round trip substitution_encrypt -> _decrypt *)

MaxSrLen == 3

SrChars == {"A", "D", "E", "d", "1", " "}

SrIdle ==
    /\ sr_pc = "idle"
    /\ sr_plain = <<>>
    /\ sr_mapping = <<>>
    /\ sr_cipher = <<>>
    /\ sr_out = <<>>

SrInit ==
    /\ sr_pc = "start"
    /\ sr_plain \in SeqsUpTo(SrChars, MaxSrLen)
    /\ sr_mapping \in Bijections
    /\ sr_cipher = <<>>
    /\ sr_out = <<>>

SrEncrypt ==
    /\ sr_pc = "start"
    /\ sr_cipher' = substitution_encrypt(sr_plain, sr_mapping)
    /\ sr_pc' = "encrypted"
    /\ UNCHANGED <<sr_plain, sr_mapping, sr_out, not_sr>>

SrDecrypt ==
    /\ sr_pc = "encrypted"
    /\ sr_out' = _decrypt(sr_cipher, Inverse(sr_mapping))
    /\ sr_pc' = "decrypted"
    /\ UNCHANGED <<sr_plain, sr_mapping, sr_cipher, not_sr>>

SrNext == SrEncrypt \/ SrDecrypt

-----------------------------------------------------------------------------
(* The round trip columnar_encrypt -> _columnar_decrypt *)

\* bounds of the round trip's inputs
MaxRtLen == 4
MaxRtKey == 3

RtChars == {"A", "D", "e", " "}

RtIdle ==
    /\ rt_pc = "idle"
    /\ rt_plain = <<>>
    /\ rt_key = <<>>
    /\ rt_cipher = <<>>
    /\ rt_out = <<>>

RtInit ==
    /\ rt_pc = "start"
    /\ rt_plain \in SeqsUpTo(RtChars, MaxRtLen)
    /\ rt_key \in UNION {Permutations0(k) : k \in 1..MaxRtKey}
    /\ rt_cipher = <<>>
    /\ rt_out = <<>>

RtEncrypt ==
    /\ rt_pc = "start"
    /\ rt_cipher' = columnar_encrypt(rt_plain, rt_key)
    /\ rt_pc' = "encrypted"
    /\ UNCHANGED <<rt_plain, rt_key, rt_out, not_rt>>

RtDecrypt ==
    /\ rt_pc = "encrypted"
    /\ rt_out' = _columnar_decrypt(rt_cipher, rt_key)
    /\ rt_pc' = "decrypted"
    /\ UNCHANGED <<rt_plain, rt_key, rt_cipher, not_rt>>

RtNext == RtEncrypt \/ RtDecrypt

-----------------------------------------------------------------------------
(* NgramScorer: utils/ngram_scorer.py *)

\* int(token) succeeds on a non-empty string of decimal digits (the only
\* well-formed counts the model's files hold)
DigitValue(ch) ==
    CASE ch = "0" -> 0 [] ch = "1" -> 1 [] ch = "2" -> 2 [] ch = "3" -> 3
      [] ch = "4" -> 4 [] ch = "5" -> 5 [] OTHER -> -1

int_ok(token) ==
    /\ token # <<>>
    /\ \A i \in 1..Len(token) : DigitValue(token[i]) >= 0

RECURSIVE int_of(_)
int_of(token) ==
    IF token = <<>> THEN 0
    ELSE 10 * int_of(SubSeq(token, 1, Len(token) - 1)) + DigitValue(token[Len(token)])

\* floor(log2(x)) for x >= 1
RECURSIVE ilog2(_)
ilog2(x) == IF x < 2 THEN 0 ELSE 1 + ilog2(x \div 2)

\* the logarithm of a positive integer as a fixed-point number, in quarters
\* of a bit: floor(4 * log2(x)).  Scores are sums of such numbers.
log_fixed(x) == ilog2(x * x * x * x)

\* the first loop of _load_ngrams over the lines of the file, each line
\* already split into its tokens: [raised, ngrams, total]
RECURSIVE load_lines(_, _, _)
load_lines(lines, ngrams, total) ==
    IF lines = <<>> THEN [raised |-> "none", ngrams |-> ngrams, total |-> total]
    ELSE LET parts == Head(lines)
         IN IF Len(parts) = 2
            THEN IF int_ok(parts[2])
                 THEN LET count == int_of(parts[2])
                      IN load_lines(Tail(lines),
                                    [g \in DOMAIN ngrams \cup {parts[1]} |->
                                        IF g = parts[1] THEN count ELSE ngrams[g]],
                                    total + count)
                 ELSE [raised |-> "ValueError", ngrams |-> ngrams, total |-> total]
            ELSE load_lines(Tail(lines), ngrams, total)

\* NgramScorer.__init__ with _load_ngrams: [raised, ngrams, floor].  A missing
\* file raises at open(); a zero total raises at the first division; a zero
\* count raises at math.log10.
\*   self.ngrams[ngram] = log10(count / total)   (quarter bits)
\*   self.floor         = log10(0.01 / total)    (quarter bits)
_load_ngrams(file) ==
    LET failed(e) == [raised |-> e, ngrams |-> <<>>, floor |-> 0]
    IN IF ~file.exists THEN failed("FileNotFoundError")
       ELSE LET read == load_lines(file.lines, <<>>, 0)
            IN IF read.raised # "none" THEN failed(read.raised)
               ELSE IF read.total = 0 THEN failed("ZeroDivisionError")
               ELSE IF \E g \in DOMAIN read.ngrams : read.ngrams[g] = 0
                    THEN failed("ValueError")
               ELSE [raised |-> "none",
                     ngrams |-> [g \in DOMAIN read.ngrams |->
                                   log_fixed(read.ngrams[g]) - log_fixed(read.total)],
                     floor |-> 0 - (log_fixed(100) + log_fixed(read.total))]

\* the loop of score over range(len(text) - n) : the last window is missed
RECURSIVE score_loop_short(_, _, _, _, _)
score_loop_short(text, i, n, ngrams, floor) ==
    IF i >= Len(text) - n THEN 0
    ELSE LET ngram == SubSeq(text, i + 1, i + n)
         IN (IF ngram \in DOMAIN ngrams THEN ngrams[ngram] ELSE floor)
            + score_loop_short(text, i + 1, n, ngrams, floor)

\* the loop of score over range(len(text) - n + 1)
RECURSIVE score_loop(_, _, _, _, _)
score_loop(text, i, n, ngrams, floor) ==
    IF i >= Len(text) - n + 1 THEN 0
    ELSE LET ngram == SubSeq(text, i + 1, i + n)
         IN (IF ngram \in DOMAIN ngrams THEN ngrams[ngram] ELSE floor)
            + score_loop(text, i + 1, n, ngrams, floor)

\* NgramScorer.score of the scorer in sc_n, sc_ngrams, sc_floor
score(text) ==
    score_loop(Remove(Remove(Upper(text), " "), "\n"), 0, sc_n, sc_ngrams, sc_floor)

\* tokens and lines of the corpus files of the model
TokAD == <<"A", "D">>
TokDA == <<"D", "A">>
TokAA == <<"A", "A">>
TokADA == <<"A", "D", "A">>

\* the corpus the breakers' scorer is built from
EnglishQuadgrams ==
    [exists |-> TRUE,
     lines |-> << <<TokAD, <<"5">>>>, <<TokDA, <<"2">>>>, <<TokADA, <<"3">>>>, <<<<"D">>, <<"1">>>> >>]

\* a second well-formed corpus
OtherQuadgrams ==
    [exists |-> TRUE,
     lines |-> << <<TokAA, <<"1">>>>, <<TokAD, <<"1", "0">>>>, <<<<"A">>, <<"4">>>> >>]

\* the lines a corpus file of the loader runs is made of: well-formed ones,
\* a wrong number of tokens (0, 1, 3), a count that is no integer
NgLines ==
    { <<TokAD, <<"2">>>>, <<TokDA, <<"3">>>>, <<>>, <<TokAD>>,
      <<TokDA, <<"2">>, <<"1">>>>, <<TokAA, <<"x">>>> }

MaxLines == 3
MaxNgram == 2
MaxScLen == 4

ScChars == {"A", "D", "a", " ", "\n"}

ScIdle ==
    /\ sc_pc = "idle"
    /\ sc_file = [exists |-> FALSE, lines |-> <<>>]
    /\ sc_n = 0
    /\ sc_ngrams = <<>>
    /\ sc_floor = 0
    /\ sc_raised = "none"
    /\ sc_text = <<>>
    /\ sc_results = <<>>

\* before NgramScorer(ngramfile, n): __init__ has set n, ngrams = {} and
\* floor = None (0 here, never read before it is set)
ScNew(files, ns, texts) ==
    /\ sc_pc = "new"
    /\ sc_file \in files
    /\ sc_n \in ns
    /\ sc_ngrams = <<>>
    /\ sc_floor = 0
    /\ sc_raised = "none"
    /\ sc_text \in texts
    /\ sc_results = <<>>

\* a scorer already built from EnglishQuadgrams with n = 2
ScBuilt ==
    /\ sc_pc = "ready"
    /\ sc_file = EnglishQuadgrams
    /\ sc_n = 2
    /\ sc_ngrams = _load_ngrams(EnglishQuadgrams).ngrams
    /\ sc_floor = _load_ngrams(EnglishQuadgrams).floor
    /\ sc_raised = "none"
    /\ sc_text = <<>>
    /\ sc_results = <<>>

\* NgramScorer.__init__
ScConstruct ==
    /\ sc_pc = "new"
    /\ LET built == _load_ngrams(sc_file)
       IN /\ sc_raised' = built.raised
          /\ sc_ngrams' = built.ngrams
          /\ sc_floor' = built.floor
          /\ sc_pc' = IF built.raised = "none" THEN "ready" ELSE "raised"
    /\ UNCHANGED <<sc_file, sc_n, sc_text, sc_results, not_sc>>

\* one call of NgramScorer.score(sc_text); at most two calls are made
ScScore ==
    /\ sc_pc = "ready"
    /\ Len(sc_results) < 2
    /\ sc_results' = Append(sc_results, score(sc_text))
    /\ UNCHANGED <<sc_pc, sc_file, sc_n, sc_ngrams, sc_floor, sc_raised, sc_text, not_sc>>

ScNext == ScConstruct \/ ScScore

-----------------------------------------------------------------------------
(* FrequencyAnalyzer: utils/frequency_analyzer.py                           *)
(*                                                                          *)
(* A frequency dict is the sequence of its items <<letter, value>> in       *)
(* insertion order (the order sorted() is stable in); {} is <<>>.  A        *)
(* percentage is an integer number of hundredths of a percent.              *)

\* DEFAULT_CHAR_FREQUENCIES, in its insertion order, for the letters of the
\* model
DefaultItems ==
    << <<"E", 1270>>, <<"T", 906>>, <<"A", 817>>, <<"N", 675>>, <<"D", 425>> >>

InAlphabet(item) == item[1] \in LetterSet

DEFAULT_CHAR_FREQUENCIES == SelectSeq(DefaultItems, InAlphabet)

\* sorted(items, key=lambda x: x[1], reverse=True): descending by value, items
\* of equal value in their original order
sorted_desc(items) ==
    LET n == Len(items)
        Before(a, b) == items[a][2] > items[b][2] \/ (items[a][2] = items[b][2] /\ a < b)
        Rank(b) == Cardinality({a \in 1..n : Before(a, b)})
    IN [r \in 1..n |-> items[CHOOSE k \in 1..n : Rank(k) = r - 1]]

\* DEFAULT_FREQ_ORDER
DEFAULT_FREQ_ORDER ==
    [r \in 1..Len(DEFAULT_CHAR_FREQUENCIES) |-> sorted_desc(DEFAULT_CHAR_FREQUENCIES)[r][1]]

\* the number of occurrences of ch in s
Count(s, ch) == Cardinality({i \in 1..Len(s) : s[i] = ch})

IsAlphaChar(ch) == IsAlpha(ch)

\* [c for c in text.upper() if c.isalpha()]
letters_only(text) == SelectSeq(Upper(text), IsAlphaChar)

\* the row loop of _load_char_frequencies_from_csv over the rows the
\* DictReader yields (header word,count): [counter, total].  A row without a
\* count field gives int(None), a TypeError; a count that is no integer a
\* ValueError; both are caught and the row is left out.  Fields past the
\* second are ignored.
RECURSIVE count_rows(_, _, _)
count_rows(rows, char_counter, total_char_count) ==
    IF rows = <<>> THEN [counter |-> char_counter, total |-> total_char_count]
    ELSE LET row == Head(rows)
             word == Upper(row[1])
         IN IF Len(row) < 2 \/ ~int_ok(row[2])
            THEN count_rows(Tail(rows), char_counter, total_char_count)
            ELSE LET count == int_of(row[2])
                     n(ch) == Count(word, ch)
                     counted == Cardinality({i \in 1..Len(word) : word[i] \in LetterSet})
                 IN count_rows(Tail(rows),
                               [ch \in LetterSet |-> char_counter[ch] + n(ch) * count],
                               total_char_count + counted * count)

\* FrequencyAnalyzer._load_char_frequencies_from_csv: [char_frequencies,
\* freq_order].  csv_file is [exists, rows], the rows after the header, none
\* of them empty (the reader drops empty lines).
_load_char_frequencies_from_csv(csv_file) ==
    IF ~csv_file.exists
    THEN [char_frequencies |-> DEFAULT_CHAR_FREQUENCIES, freq_order |-> DEFAULT_FREQ_ORDER]
    ELSE LET read == count_rows(csv_file.rows, [ch \in LetterSet |-> 0], 0)
             frequencies == [k \in 1..NLetters |->
                               <<letters[k],
                                 IF read.total > 0
                                 THEN (read.counter[letters[k]] * 10000) \div read.total
                                 ELSE 0>>]
             sorted_freq == sorted_desc(frequencies)
         IN [char_frequencies |-> frequencies,
             freq_order |-> [r \in 1..NLetters |-> sorted_freq[r][1]]]

\* FrequencyAnalyzer.calculate_char_frequencies
calculate_char_frequencies(text) ==
    LET only == letters_only(text)
        total == Len(only)
    IN IF only = <<>> THEN <<>>
       ELSE [k \in 1..NLetters |-> <<letters[k], (Count(only, letters[k]) * 10000) \div total>>]

\* the term of one letter with its square in place of count * (count - 1)
ic_term_square(count) == count * count

\* count * (count - 1), the term of one letter in the index of coincidence
ic_term(count) == count * (count - 1)

\* FrequencyAnalyzer.calculate_index_of_coincidence, as the fraction [num, den]
\* it returns the quotient of; 0.0 is 0/1
calculate_index_of_coincidence(text) ==
    LET only == letters_only(text)
        n == Len(only)
        counter == [ch \in {only[i] : i \in 1..n} |-> Count(only, ch)]
        products == [ch \in DOMAIN counter |-> ic_term(counter[ch])]
        RECURSIVE Sum(_)
        Sum(S) == IF S = {} THEN 0
                  ELSE LET ch == CHOOSE x \in S : TRUE IN products[ch] + Sum(S \ {ch})
    IN IF n < 2 THEN [num |-> 0, den |-> 1]
       ELSE [num |-> Sum(DOMAIN counter), den |-> n * (n - 1)]

Abs(x) == IF x < 0 THEN 0 - x ELSE x

\* the inner loop of create_frequency_mapping for the cipher letter at rank i
\* (0-based) with frequency cipher_freq_val: the index in sorted_expected of
\* the unused plain letter of least score, the first such; 0 when none is left.
\*   score = |cipher_freq_val - expected_freq_val| + 0.5 * |i - j|
best_match(i, cipher_freq_val, sorted_expected, used_plain) ==
    LET free == {j \in 1..Len(sorted_expected) : sorted_expected[j][1] \notin used_plain}
        sc(j) == Abs(cipher_freq_val - sorted_expected[j][2]) + Abs(i - (j - 1)) * 50
    IN IF free = {} THEN 0
       ELSE CHOOSE j \in free : \A k \in free : sc(j) < sc(k) \/ (sc(j) = sc(k) /\ j <= k)

\* the outer loop of create_frequency_mapping from rank i on: [mapping,
\* used_plain]
RECURSIVE greedy_assign(_, _, _, _, _)
greedy_assign(i, sorted_cipher, sorted_expected, mapping, used_plain) ==
    IF i >= Len(sorted_cipher) THEN [mapping |-> mapping, used_plain |-> used_plain]
    ELSE LET cipher_char == sorted_cipher[i + 1][1]
             j == best_match(i, sorted_cipher[i + 1][2], sorted_expected, used_plain)
         IN IF cipher_char \in DOMAIN mapping \/ j = 0
            THEN greedy_assign(i + 1, sorted_cipher, sorted_expected, mapping, used_plain)
            ELSE greedy_assign(i + 1, sorted_cipher, sorted_expected,
                               [c \in DOMAIN mapping \cup {cipher_char} |->
                                   IF c = cipher_char THEN sorted_expected[j][1] ELSE mapping[c]],
                               used_plain \cup {sorted_expected[j][1]})

\* FrequencyAnalyzer.create_frequency_mapping on self.char_frequencies =
\* fa_char_frequencies: a dict cipher letter -> plain letter, {} for a text
\* without letters
create_frequency_mapping(ciphertext) ==
    LET cipher_freq == calculate_char_frequencies(ciphertext)
    IN IF cipher_freq = <<>> THEN <<>>
       ELSE LET assigned == greedy_assign(0, sorted_desc(cipher_freq),
                                          sorted_desc(fa_char_frequencies), <<>>, {})
                InMapping(c) == c \in DOMAIN assigned.mapping
                NotMapped(c) == ~InMapping(c)
                NotUsed(c) == c \notin assigned.used_plain
                unused_cipher == SelectSeq(letters, NotMapped)
                unused_plain == SelectSeq(letters, NotUsed)
                Pos(c) == CHOOSE i \in 1..Len(unused_cipher) : unused_cipher[i] = c
            IN [c \in LetterSet |->
                  IF InMapping(c) THEN assigned.mapping[c]
                  ELSE IF Pos(c) <= Len(unused_plain) THEN unused_plain[Pos(c)]
                  ELSE c]

\* the rows a unigram CSV of the loader runs is made of: well-formed ones, a
\* wrong number of fields (1, 3), a count that is no integer
CsvRows ==
    { <<<<"a", "d">>, <<"2">>>>, <<<<"E", "a">>, <<"3">>>>, <<<<"d">>>>,
      <<<<"e", "e">>, <<"x">>>>, <<<<"d", "1">>, <<"1">>, <<"z">>>> }

\* a unigram CSV the analyzer of the breaker may be built from
UnigramCsv ==
    [exists |-> TRUE,
     rows |-> << <<<<"d", "a", "d">>, <<"2">>>>, <<<<"e", "a">>, <<"1">>>> >>]

MissingCsv == [exists |-> FALSE, rows |-> <<>>]

MaxFaLen == 3

FaChars == {"A", "D", "E", "d", "1"}

FaIdle ==
    /\ fa_pc = "idle"
    /\ fa_csv = MissingCsv
    /\ fa_char_frequencies = <<>>
    /\ fa_freq_order = <<>>
    /\ fa_text = <<>>
    /\ fa_called = {}
    /\ fa_mapping = <<>>
    /\ fa_ic = [num |-> 0, den |-> 1]

\* before FrequencyAnalyzer(unigram_csv_file)
FaNew(csvs, texts) ==
    /\ fa_pc = "new"
    /\ fa_csv \in csvs
    /\ fa_char_frequencies = <<>>
    /\ fa_freq_order = <<>>
    /\ fa_text \in texts
    /\ fa_called = {}
    /\ fa_mapping = <<>>
    /\ fa_ic = [num |-> 0, den |-> 1]

\* FrequencyAnalyzer.__init__
FaConstruct ==
    /\ fa_pc = "new"
    /\ LET loaded == _load_char_frequencies_from_csv(fa_csv)
       IN /\ fa_char_frequencies' = loaded.char_frequencies
          /\ fa_freq_order' = loaded.freq_order
    /\ fa_pc' = "ready"
    /\ UNCHANGED <<fa_csv, fa_text, fa_called, fa_mapping, fa_ic, not_fa>>

\* a call of create_frequency_mapping(fa_text)
FaCreateMapping ==
    /\ fa_pc = "ready"
    /\ "create_frequency_mapping" \notin fa_called
    /\ fa_mapping' = create_frequency_mapping(fa_text)
    /\ fa_called' = fa_called \cup {"create_frequency_mapping"}
    /\ UNCHANGED <<fa_pc, fa_csv, fa_char_frequencies, fa_freq_order, fa_text, fa_ic, not_fa>>

\* a call of calculate_index_of_coincidence(fa_text)
FaIndexOfCoincidence ==
    /\ fa_pc = "ready"
    /\ "calculate_index_of_coincidence" \notin fa_called
    /\ fa_ic' = calculate_index_of_coincidence(fa_text)
    /\ fa_called' = fa_called \cup {"calculate_index_of_coincidence"}
    /\ UNCHANGED <<fa_pc, fa_csv, fa_char_frequencies, fa_freq_order, fa_text, fa_mapping,
                   not_fa>>

FaNext == FaConstruct \/ FaCreateMapping \/ FaIndexOfCoincidence

-----------------------------------------------------------------------------
(* PermutationBreaker.break_cipher and _brute_force:                        *)
(* breakers/permutation_breaker.py                                          *)

\* float('-inf'): below every score a text of the model can have
NegInf == -1000000

\* None, for a key or a text that has not been assigned
None == <<>>

\* the exhaustive-search threshold of break_cipher
BruteForceMaxKey == 8

\* a sequence without its element at index i
without(pool, i) == SubSeq(pool, 1, i - 1) \o SubSeq(pool, i + 1, Len(pool))

\* itertools.permutations(pool): the permutations in lexicographic order of
\* the positions, () alone for an empty pool
RECURSIVE permutations(_)
RECURSIVE permutations_from(_, _)
permutations(pool) ==
    IF pool = <<>> THEN << <<>> >> ELSE permutations_from(pool, 1)

prepend(x, seqs) == [k \in 1..Len(seqs) |-> <<x>> \o seqs[k]]

permutations_from(pool, i) ==
    IF i > Len(pool) THEN <<>>
    ELSE prepend(pool[i], permutations(without(pool, i))) \o permutations_from(pool, i + 1)

\* range(n)
range(n) == [i \in 1..(IF n > 0 THEN n ELSE 0) |-> i - 1]

\* the comparison of _brute_force with ties going to the later key
improves_or_ties(new_score, best_score) == new_score >= best_score

\* score > best_score
improves(new_score, best_score) == new_score > best_score

MaxPbLen == 4
MaxPbKey == 3

PbChars == {"A", "D", "a"}

PbIdle ==
    /\ pb_pc = "idle"
    /\ pb_ciphertext = <<>>
    /\ pb_key_length = 0
    /\ pb_perms = <<>>
    /\ pb_best_key = None
    /\ pb_best_text = None
    /\ pb_best_score = NegInf
    /\ pb_raised = "none"
    /\ pb_result = [text |-> None, key |-> None]
    /\ pb_plain = <<>>
    /\ pb_true_key = <<>>
    /\ pb_tried = <<>>

\* before break_cipher(ciphertext, key_length): either the ciphertext is the
\* encryption of a text under a key of the length asked for, or it is any
\* short text and the key length any integer from -1 to MaxPbKey
PbInit ==
    /\ pb_pc = "start"
    /\ \/ /\ pb_plain \in SeqsUpTo(PbChars, MaxPbLen)
          /\ pb_true_key \in UNION {Permutations0(k) : k \in 1..MaxPbKey}
          /\ pb_ciphertext = columnar_encrypt(pb_plain, pb_true_key)
          /\ pb_key_length = Len(pb_true_key)
       \/ /\ pb_plain = <<>>
          /\ pb_true_key = <<>>
          /\ pb_ciphertext \in SeqsUpTo({"A", "d", " "}, 2)
          /\ pb_key_length \in (0 - 1)..MaxPbKey
    /\ pb_perms = <<>>
    /\ pb_best_key = None
    /\ pb_best_text = None
    /\ pb_best_score = NegInf
    /\ pb_raised = "none"
    /\ pb_result = [text |-> None, key |-> None]
    /\ pb_tried = <<>>

\* break_cipher entering _brute_force (key_length <= 8)
PbBruteForce ==
    /\ pb_pc = "start"
    /\ pb_key_length <= BruteForceMaxKey
    /\ pb_perms' = permutations(range(pb_key_length))
    /\ pb_best_key' = None
    /\ pb_best_text' = None
    /\ pb_best_score' = NegInf
    /\ pb_pc' = "brute_force"
    /\ UNCHANGED <<pb_ciphertext, pb_key_length, pb_raised, pb_result, pb_plain,
                   pb_true_key, pb_tried, not_pb>>

\* one iteration of the loop of _brute_force; _columnar_decrypt divides by
\* len(key), a ZeroDivisionError for the empty key
PbTry ==
    /\ pb_pc = "brute_force"
    /\ pb_perms # <<>>
    /\ LET key == Head(pb_perms)
       IN /\ pb_tried' = Append(pb_tried, key)
          /\ IF Len(key) = 0
             THEN /\ pb_raised' = "ZeroDivisionError"
                  /\ pb_pc' = "raised"
                  /\ UNCHANGED <<pb_perms, pb_best_key, pb_best_text, pb_best_score>>
             ELSE LET text == _columnar_decrypt(pb_ciphertext, key)
                      new_score == score(text)
                  IN /\ pb_perms' = Tail(pb_perms)
                     /\ IF improves(new_score, pb_best_score)
                        THEN /\ pb_best_score' = new_score
                             /\ pb_best_key' = key
                             /\ pb_best_text' = text
                        ELSE UNCHANGED <<pb_best_key, pb_best_text, pb_best_score>>
                     /\ UNCHANGED <<pb_pc, pb_raised>>
    /\ UNCHANGED <<pb_ciphertext, pb_key_length, pb_result, pb_plain, pb_true_key, not_pb>>

\* the loop of _brute_force is over: break_cipher returns (text, key)
PbReturn ==
    /\ pb_pc = "brute_force"
    /\ pb_perms = <<>>
    /\ pb_result' = [text |-> pb_best_text, key |-> pb_best_key]
    /\ pb_pc' = "returned"
    /\ UNCHANGED <<pb_ciphertext, pb_key_length, pb_perms, pb_best_key, pb_best_text,
                   pb_best_score, pb_raised, pb_plain, pb_true_key, pb_tried, not_pb>>

PbNext == PbBruteForce \/ PbTry \/ PbReturn

-----------------------------------------------------------------------------
(* SubstitutionBreaker.break_cipher and _hill_climb:                        *)
(* breakers/substitution_breaker.py                                         *)
(*                                                                          *)
(* A probability is an integer number of millionths.                        *)

\* initial_acceptance_prob = 0.3
InitialAcceptanceProb == 300000

\* cooling_rate = 0.999, in thousandths
CoolingRate == 999

\* the result of an exchange that writes the value of b to a and leaves b as
\* it was
swapped_overwriting(mapping, a, b) ==
    [c \in DOMAIN mapping |-> IF c = a THEN mapping[b] ELSE mapping[c]]

\* a mapping with the values of a and b exchanged (the assignment of
\* _swap_mapping, on the copy)
swapped(mapping, a, b) ==
    [c \in DOMAIN mapping |->
        IF c = a THEN mapping[b] ELSE IF c = b THEN mapping[a] ELSE mapping[c]]

\* the result of the test of the neighbour with a tie counted as an
\* improvement
neighbor_improves_or_ties(score_diff) == score_diff >= 0

\* if score_diff > 0: the neighbour is better than the current mapping
neighbor_improves(score_diff) == score_diff > 0

\* the pairs random.sample(self.letters, 2) can draw (the swap does not
\* depend on their order)
LetterPairs == {pr \in LetterSet \X LetterSet : pr[1] # pr[2]}

\* the result of the comparison of break_cipher with ties going to the later
\* run
run_improves_or_ties(new_score, best_score) == new_score >= best_score

\* score > best_score, the comparison of break_cipher between runs
run_improves(new_score, best_score) == new_score > best_score

\* the ciphertexts break_cipher is called on: empty, without a letter, with
\* one distinct letter, and two with more
SbCiphertexts ==
    { <<>>, <<"1", " ">>, <<"D", "d">>, <<"D", "A", "D">>, <<"a", "e", "1", "D", "A">> }

MaxIterations == 3
MaxRestarts == 2

SbIdle ==
    /\ sb_max_iterations = 0
    /\ sb_num_restarts = 0
    /\ sb_use_soft_climbing = FALSE
    /\ bc_ciphertext = <<>>
    /\ bc_use_frequency_initial = FALSE
    /\ bc_pc = "idle"
    /\ bc_run_state = "none"
    /\ bc_runs_started = 0
    /\ bc_initial_mapping = <<>>
    /\ bc_initial_from = "none"
    /\ bc_best_mapping = None
    /\ bc_best_text = None
    /\ bc_best_score = NegInf
    /\ bc_raised = "none"
    /\ bc_result = [text |-> None, mapping |-> None, score |-> NegInf]
    /\ bc_run_results = <<>>
    /\ hc_current_mapping = <<>>
    /\ hc_current_text = <<>>
    /\ hc_current_score = 0
    /\ hc_best_mapping = <<>>
    /\ hc_best_text = <<>>
    /\ hc_best_score = 0
    /\ hc_no_improvement_count = 0
    /\ hc_acceptance_prob = 0
    /\ hc_iteration = 0
    /\ hc_neighbor_mapping = <<>>
    /\ hc_neighbor_score = 0

\* a breaker constructed with max_iterations, num_restarts and
\* use_soft_climbing, at the call break_cipher(ciphertext) (hill-climbing
\* mode, use_frequency_initial = True): lines 299-301 have run
SbInit ==
    /\ sb_max_iterations = MaxIterations
    /\ sb_num_restarts \in 1..MaxRestarts
    /\ sb_use_soft_climbing \in BOOLEAN
    /\ bc_ciphertext \in SbCiphertexts
    /\ bc_use_frequency_initial = TRUE
    /\ bc_pc = "next_run"
    /\ bc_run_state = "none"
    /\ bc_runs_started = 0
    /\ bc_initial_mapping = <<>>
    /\ bc_initial_from = "none"
    /\ bc_best_mapping = None
    /\ bc_best_text = None
    /\ bc_best_score = NegInf
    /\ bc_raised = "none"
    /\ bc_result = [text |-> None, mapping |-> None, score |-> NegInf]
    /\ bc_run_results = <<>>
    /\ hc_current_mapping = <<>>
    /\ hc_current_text = <<>>
    /\ hc_current_score = 0
    /\ hc_best_mapping = <<>>
    /\ hc_best_text = <<>>
    /\ hc_best_score = 0
    /\ hc_no_improvement_count = 0
    /\ hc_acceptance_prob = 0
    /\ hc_iteration = 0
    /\ hc_neighbor_mapping = <<>>
    /\ hc_neighbor_score = 0

\* the same breaker at the call break_cipher(ciphertext,
\* use_frequency_initial=False): every run starts from a random mapping
SbInitRandomOnly ==
    /\ sb_max_iterations = MaxIterations
    /\ sb_num_restarts \in 1..MaxRestarts
    /\ sb_use_soft_climbing \in BOOLEAN
    /\ bc_ciphertext \in SbCiphertexts
    /\ bc_use_frequency_initial = FALSE
    /\ bc_pc = "next_run"
    /\ bc_run_state = "none"
    /\ bc_runs_started = 0
    /\ bc_initial_mapping = <<>>
    /\ bc_initial_from = "none"
    /\ bc_best_mapping = None
    /\ bc_best_text = None
    /\ bc_best_score = NegInf
    /\ bc_raised = "none"
    /\ bc_result = [text |-> None, mapping |-> None, score |-> NegInf]
    /\ bc_run_results = <<>>
    /\ hc_current_mapping = <<>>
    /\ hc_current_text = <<>>
    /\ hc_current_score = 0
    /\ hc_best_mapping = <<>>
    /\ hc_best_text = <<>>
    /\ hc_best_score = 0
    /\ hc_no_improvement_count = 0
    /\ hc_acceptance_prob = 0
    /\ hc_iteration = 0
    /\ hc_neighbor_mapping = <<>>
    /\ hc_neighbor_score = 0

\* a max_iterations that is a multiple of 10, as the default 10000 is
PlateauIterations == 10

\* a breaker constructed with max_iterations = PlateauIterations and
\* num_restarts = 1, at the call break_cipher(ciphertext): one _hill_climb
\* run, from the frequency mapping
SbInitPlateau ==
    /\ sb_max_iterations = PlateauIterations
    /\ sb_num_restarts = 1
    /\ sb_use_soft_climbing \in BOOLEAN
    /\ bc_ciphertext \in SbCiphertexts
    /\ bc_use_frequency_initial = TRUE
    /\ bc_pc = "next_run"
    /\ bc_run_state = "none"
    /\ bc_runs_started = 0
    /\ bc_initial_mapping = <<>>
    /\ bc_initial_from = "none"
    /\ bc_best_mapping = None
    /\ bc_best_text = None
    /\ bc_best_score = NegInf
    /\ bc_raised = "none"
    /\ bc_result = [text |-> None, mapping |-> None, score |-> NegInf]
    /\ bc_run_results = <<>>
    /\ hc_current_mapping = <<>>
    /\ hc_current_text = <<>>
    /\ hc_current_score = 0
    /\ hc_best_mapping = <<>>
    /\ hc_best_text = <<>>
    /\ hc_best_score = 0
    /\ hc_no_improvement_count = 0
    /\ hc_acceptance_prob = 0
    /\ hc_iteration = 0
    /\ hc_neighbor_mapping = <<>>
    /\ hc_neighbor_score = 0

\* the number of runs when the loop over the restarts does not leave out the
\* frequency-seeded run
runs_to_make_unadjusted ==
    (IF bc_use_frequency_initial THEN 1 ELSE 0) + sb_num_restarts

\* the number of _hill_climb runs break_cipher makes: the frequency-seeded one
\* when use_frequency_initial, then range(num_restarts - (1 or 0)) random ones
runs_to_make ==
    LET seeded == IF bc_use_frequency_initial THEN 1 ELSE 0
        random_runs == sb_num_restarts - seeded
    IN seeded + (IF random_runs > 0 THEN random_runs ELSE 0)

\* break_cipher creates the initial mapping of the next run:
\* _create_initial_mapping(ciphertext, use_frequency=True) for the first run
\* when use_frequency_initial, _random_mapping() otherwise
BcCreateInitialMapping ==
    /\ bc_pc = "next_run"
    /\ bc_runs_started < runs_to_make
    /\ IF bc_use_frequency_initial /\ bc_runs_started = 0
       THEN /\ bc_initial_mapping' = create_frequency_mapping(bc_ciphertext)
            /\ bc_initial_from' = "create_frequency_mapping"
       ELSE /\ bc_initial_mapping' \in Bijections
            /\ bc_initial_from' = "_random_mapping"
    /\ bc_runs_started' = bc_runs_started + 1
    /\ bc_run_state' = "INIT"
    /\ bc_pc' = "hill_climb"
    /\ UNCHANGED <<vars_cfg, bc_best_mapping, bc_best_text, bc_best_score, bc_raised,
                   bc_result, bc_run_results, vars_hc, not_sb>>

\* _hill_climb up to its loop (lines 157-170)
HcBegin ==
    /\ bc_pc = "hill_climb"
    /\ bc_run_state = "INIT"
    /\ LET text == _decrypt(bc_ciphertext, bc_initial_mapping)
       IN /\ hc_current_mapping' = bc_initial_mapping
          /\ hc_current_text' = text
          /\ hc_current_score' = score(text)
          /\ hc_best_mapping' = bc_initial_mapping
          /\ hc_best_text' = text
          /\ hc_best_score' = score(text)
    /\ hc_no_improvement_count' = 0
    /\ hc_acceptance_prob' = IF sb_use_soft_climbing THEN InitialAcceptanceProb ELSE 0
    /\ hc_iteration' = 0
    /\ bc_run_state' = "SEARCHING"
    /\ UNCHANGED <<hc_neighbor_mapping, hc_neighbor_score>>
    /\ UNCHANGED <<vars_cfg, bc_pc, bc_runs_started, bc_initial_mapping, bc_initial_from,
                   bc_best_mapping,
                   bc_best_text, bc_best_score, bc_raised, bc_result, bc_run_results,
                   not_sb>>

\* one iteration of the loop of _hill_climb up to the plateau test (lines
\* 172-209): a neighbour by _swap_mapping, then accept or reject.
\* _swap_mapping reads new_mapping[b] and new_mapping[a]: a KeyError when the
\* mapping lacks the letter.
HcNeighbour ==
    /\ bc_pc = "hill_climb"
    /\ bc_run_state = "SEARCHING"
    /\ hc_iteration < sb_max_iterations
    /\ \E pr \in LetterPairs :
          IF pr[1] \notin DOMAIN hc_current_mapping \/ pr[2] \notin DOMAIN hc_current_mapping
          THEN /\ bc_raised' = "KeyError"
               /\ bc_pc' = "raised"
               /\ UNCHANGED vars_hc
          ELSE LET neighbor_mapping == swapped(hc_current_mapping, pr[1], pr[2])
                   neighbor_text == _decrypt(bc_ciphertext, neighbor_mapping)
                   neighbor_score == score(neighbor_text)
                   score_diff == neighbor_score - hc_current_score
                   adopt == /\ hc_current_mapping' = neighbor_mapping
                            /\ hc_current_text' = neighbor_text
                            /\ hc_current_score' = neighbor_score
                            /\ hc_no_improvement_count' = 0
                   reject == /\ hc_no_improvement_count' = hc_no_improvement_count + 1
                             /\ UNCHANGED <<hc_current_mapping, hc_current_text,
                                            hc_current_score, hc_best_mapping, hc_best_text,
                                            hc_best_score, hc_acceptance_prob>>
               IN /\ IF neighbor_improves(score_diff)
                     THEN /\ adopt
                          /\ IF neighbor_score > hc_best_score
                             THEN /\ hc_best_mapping' = neighbor_mapping
                                  /\ hc_best_text' = neighbor_text
                                  /\ hc_best_score' = neighbor_score
                             ELSE UNCHANGED <<hc_best_mapping, hc_best_text, hc_best_score>>
                          /\ UNCHANGED hc_acceptance_prob
                     ELSE IF sb_use_soft_climbing /\ hc_acceptance_prob > 0
                          THEN \/ /\ adopt
                                  /\ hc_acceptance_prob' =
                                        (hc_acceptance_prob * CoolingRate) \div 1000
                                  /\ UNCHANGED <<hc_best_mapping, hc_best_text,
                                                 hc_best_score>>
                               \/ reject
                          ELSE reject
                  /\ hc_neighbor_mapping' = neighbor_mapping
                  /\ hc_neighbor_score' = neighbor_score
                  /\ bc_pc' = "plateau_test"
                  /\ UNCHANGED <<hc_iteration, bc_raised>>
    /\ UNCHANGED <<vars_cfg, bc_run_state, bc_runs_started, bc_initial_mapping, bc_initial_from,
                   bc_best_mapping, bc_best_text, bc_best_score, bc_result, bc_run_results,
                   not_sb>>

\* the end of the iteration (lines 211-220): after more than
\* max_iterations // 10 iterations without an accepted move, a forced swap
HcPlateau ==
    /\ bc_pc = "plateau_test"
    /\ IF hc_no_improvement_count > sb_max_iterations \div 10
       THEN /\ \E pr \in LetterPairs :
                  LET jumped == swapped(hc_current_mapping, pr[1], pr[2])
                  IN /\ hc_current_mapping' = jumped
                     /\ hc_current_text' = _decrypt(bc_ciphertext, jumped)
                     /\ hc_current_score' = score(_decrypt(bc_ciphertext, jumped))
            /\ hc_no_improvement_count' = 0
            /\ hc_acceptance_prob' = IF sb_use_soft_climbing
                                     THEN InitialAcceptanceProb \div 2
                                     ELSE hc_acceptance_prob
       ELSE UNCHANGED <<hc_current_mapping, hc_current_text, hc_current_score,
                        hc_no_improvement_count, hc_acceptance_prob>>
    /\ hc_iteration' = hc_iteration + 1
    /\ bc_pc' = "hill_climb"
    /\ UNCHANGED <<vars_cfg, bc_run_state, bc_runs_started, bc_initial_mapping, bc_initial_from,
                   bc_best_mapping, bc_best_text, bc_best_score, bc_raised, bc_result,
                   bc_run_results, hc_best_mapping, hc_best_text, hc_best_score,
                   hc_neighbor_mapping, hc_neighbor_score, not_sb>>

\* the triple returned with the text of the current mapping in the place of
\* best_text
hill_climb_returns_current_text ==
    [mapping |-> hc_best_mapping, text |-> hc_current_text, score |-> hc_best_score]

\* return best_mapping, best_text, best_score (line 222)
hill_climb_returns ==
    [mapping |-> hc_best_mapping, text |-> hc_best_text, score |-> hc_best_score]

\* _hill_climb returns (best_mapping, best_text, best_score) and break_cipher
\* keeps it when its score is greater than the best so far (lines 222,
\* 315-318, 332-335)
HcReturn ==
    /\ bc_pc = "hill_climb"
    /\ bc_run_state = "SEARCHING"
    /\ hc_iteration >= sb_max_iterations
    /\ LET returned == hill_climb_returns
       IN /\ bc_run_results' = Append(bc_run_results,
                                      [mapping |-> returned.mapping, text |-> returned.text,
                                       score |-> returned.score,
                                       initial |-> bc_initial_mapping])
          /\ IF run_improves(returned.score, bc_best_score)
             THEN /\ bc_best_mapping' = returned.mapping
                  /\ bc_best_text' = returned.text
                  /\ bc_best_score' = returned.score
             ELSE UNCHANGED <<bc_best_mapping, bc_best_text, bc_best_score>>
    /\ bc_run_state' = "DONE"
    /\ bc_pc' = "next_run"
    /\ UNCHANGED <<vars_cfg, bc_runs_started, bc_initial_mapping, bc_initial_from,
                   bc_raised, bc_result, vars_hc, not_sb>>

\* break_cipher returns (best_text, best_mapping, best_score)
BcReturn ==
    /\ bc_pc = "next_run"
    /\ bc_runs_started >= runs_to_make
    /\ bc_result' = [text |-> bc_best_text, mapping |-> bc_best_mapping,
                     score |-> bc_best_score]
    /\ bc_pc' = "returned"
    /\ UNCHANGED <<vars_cfg, bc_run_state, bc_runs_started, bc_initial_mapping, bc_initial_from,
                   bc_best_mapping, bc_best_text, bc_best_score, bc_raised, bc_run_results,
                   vars_hc, not_sb>>

SbNext == BcCreateInitialMapping \/ HcBegin \/ HcNeighbour \/ HcPlateau \/ HcReturn \/ BcReturn

\* where break_cipher and _hill_climb are: the position, the state of the
\* run, the number of runs started and the iteration of the loop
vars_control == <<bc_pc, bc_run_state, bc_runs_started, hc_iteration>>

\* the control flow of break_cipher and _hill_climb, one disjunct per step in
\* the order of SbNext: what each step does to vars_control, whatever the
\* mappings and scores are
SbControl ==
    \/ /\ bc_pc = "next_run"
       /\ bc_runs_started < runs_to_make
       /\ bc_pc' = "hill_climb"
       /\ bc_run_state' = "INIT"
       /\ bc_runs_started' = bc_runs_started + 1
       /\ hc_iteration' = hc_iteration
    \/ /\ bc_pc = "hill_climb"
       /\ bc_run_state = "INIT"
       /\ bc_run_state' = "SEARCHING"
       /\ hc_iteration' = 0
       /\ UNCHANGED <<bc_pc, bc_runs_started>>
    \/ /\ bc_pc = "hill_climb"
       /\ bc_run_state = "SEARCHING"
       /\ hc_iteration < sb_max_iterations
       /\ bc_pc' \in {"plateau_test", "raised"}
       /\ UNCHANGED <<bc_run_state, bc_runs_started, hc_iteration>>
    \/ /\ bc_pc = "plateau_test"
       /\ bc_pc' = "hill_climb"
       /\ hc_iteration' = hc_iteration + 1
       /\ UNCHANGED <<bc_run_state, bc_runs_started>>
    \/ /\ bc_pc = "hill_climb"
       /\ bc_run_state = "SEARCHING"
       /\ hc_iteration >= sb_max_iterations
       /\ bc_pc' = "next_run"
       /\ bc_run_state' = "DONE"
       /\ UNCHANGED <<bc_runs_started, hc_iteration>>
    \/ /\ bc_pc = "next_run"
       /\ bc_runs_started >= runs_to_make
       /\ bc_pc' = "returned"
       /\ UNCHANGED <<bc_run_state, bc_runs_started, hc_iteration>>

\* a FrequencyAnalyzer already built, from no CSV (the built-in table)
FaBuilt ==
    /\ fa_pc = "ready"
    /\ fa_csv = MissingCsv
    /\ fa_char_frequencies = _load_char_frequencies_from_csv(MissingCsv).char_frequencies
    /\ fa_freq_order = _load_char_frequencies_from_csv(MissingCsv).freq_order
    /\ fa_text = <<>>
    /\ fa_called = {}
    /\ fa_mapping = <<>>
    /\ fa_ic = [num |-> 0, den |-> 1]

-----------------------------------------------------------------------------
(* SubstitutionBreaker.break_cipher_frequency_only, _evaluate_mapping and   *)
(* FrequencyAnalyzer.calculate_chi_squared                                  *)
(*                                                                          *)
(* A chi-squared value is an integer number of hundredths.                  *)

\* dict.get(ch, 0.0) on a frequency dict
freq_get(items, ch) ==
    IF \E k \in 1..Len(items) : items[k][1] = ch
    THEN items[CHOOSE k \in 1..Len(items) : items[k][1] = ch][2]
    ELSE 0

RECURSIVE chi_terms(_, _, _)
chi_terms(k, frequencies, expected_frequencies) ==
    IF k > NLetters THEN 0
    ELSE LET observed == freq_get(frequencies, letters[k])
             expected == freq_get(expected_frequencies, letters[k])
         IN (IF expected > 0
             THEN ((observed - expected) * (observed - expected)) \div expected
             ELSE 0)
            + chi_terms(k + 1, frequencies, expected_frequencies)

\* FrequencyAnalyzer.calculate_chi_squared(text, mapping)
calculate_chi_squared(text, mapping) ==
    chi_terms(1, calculate_char_frequencies(text), fa_char_frequencies)

\* common_bigrams
common_bigrams ==
    { <<"T", "H">>, <<"H", "E">>, <<"I", "N">>, <<"E", "R">>, <<"A", "N">>,
      <<"R", "E">>, <<"E", "D">>, <<"N", "D">>, <<"O", "N">>, <<"E", "N">>,
      <<"A", "T">>, <<"O", "U">>, <<"I", "T">>, <<"I", "S">>, <<"O", "R">>,
      <<"T", "I">>, <<"A", "S">>, <<"T", "O">>, <<"H", "A">>, <<"E", "T">> }

\* the bigram_score of _evaluate_mapping: the number of positions of
\* letters_only where a common bigram starts
bigram_score(only) ==
    Cardinality({i \in 1..(Len(only) - 1) : <<only[i], only[i + 1]>> \in common_bigrams})

\* SubstitutionBreaker._evaluate_mapping: chi - bigram_score * 2
_evaluate_mapping(ciphertext, mapping) ==
    LET plaintext == _decrypt(ciphertext, mapping)
    IN calculate_chi_squared(plaintext, mapping) - bigram_score(letters_only(plaintext)) * 200

\* test_score < best_score
fo_accepts(test_score, best_score) == test_score < best_score

\* range(100), the trial swaps of break_cipher_frequency_only, cut to the
\* first FoIterations
FoIterations == 3

\* min(15, len(sorted_cipher))
TopRanks == 15

MaxFoLen == 3
FoChars == {"A", "D", "E", "1"}

FoIdle ==
    /\ fo_pc = "idle"
    /\ fo_ciphertext = <<>>
    /\ fo_mapping = <<>>
    /\ fo_best_mapping = <<>>
    /\ fo_best_text = <<>>
    /\ fo_best_score = 0
    /\ fo_iteration = 0
    /\ fo_result = [text |-> None, mapping |-> None, score |-> 0]
    /\ fo_test_mapping = <<>>

\* at the call break_cipher(ciphertext, use_frequency_only=True)
FoInit ==
    /\ fo_pc = "start"
    /\ fo_ciphertext \in SeqsUpTo(FoChars, MaxFoLen)
    /\ fo_mapping = <<>>
    /\ fo_best_mapping = <<>>
    /\ fo_best_text = <<>>
    /\ fo_best_score = 0
    /\ fo_iteration = 0
    /\ fo_result = [text |-> None, mapping |-> None, score |-> 0]
    /\ fo_test_mapping = <<>>

\* break_cipher_frequency_only up to its loop (lines 228-236)
FoBegin ==
    /\ fo_pc = "start"
    /\ LET mapping == create_frequency_mapping(fo_ciphertext)
       IN /\ fo_mapping' = mapping
          /\ fo_best_mapping' = mapping
          /\ fo_best_text' = _decrypt(fo_ciphertext, mapping)
          /\ fo_best_score' = _evaluate_mapping(fo_ciphertext, mapping)
    /\ fo_pc' = "loop"
    /\ UNCHANGED <<fo_ciphertext, fo_iteration, fo_result, fo_test_mapping, not_fo>>

\* one iteration of the loop (lines 240-257): two ranks drawn among the most
\* frequent cipher letters, their targets exchanged in a copy of best_mapping
FoTrySwap ==
    /\ fo_pc = "loop"
    /\ fo_iteration < FoIterations
    /\ LET sorted_cipher == sorted_desc(calculate_char_frequencies(fo_ciphertext))
           top == IF TopRanks < Len(sorted_cipher) THEN TopRanks ELSE Len(sorted_cipher)
           untouched == /\ fo_test_mapping' = fo_best_mapping
                        /\ UNCHANGED <<fo_best_score, fo_best_mapping, fo_best_text>>
       IN IF Len(sorted_cipher) >= 2
          THEN \E idx1, idx2 \in 0..(top - 1) :
                  /\ idx1 # idx2
                  /\ LET c1 == sorted_cipher[idx1 + 1][1]
                         c2 == sorted_cipher[idx2 + 1][1]
                     IN IF c1 \in DOMAIN fo_best_mapping /\ c2 \in DOMAIN fo_best_mapping
                        THEN LET test_mapping == swapped(fo_best_mapping, c1, c2)
                                 test_text == _decrypt(fo_ciphertext, test_mapping)
                                 test_score == _evaluate_mapping(fo_ciphertext, test_mapping)
                             IN /\ fo_test_mapping' = test_mapping
                                /\ IF fo_accepts(test_score, fo_best_score)
                                   THEN /\ fo_best_score' = test_score
                                        /\ fo_best_mapping' = test_mapping
                                        /\ fo_best_text' = test_text
                                   ELSE UNCHANGED <<fo_best_score, fo_best_mapping,
                                                    fo_best_text>>
                        ELSE untouched
          ELSE untouched
    /\ fo_iteration' = fo_iteration + 1
    /\ UNCHANGED <<fo_pc, fo_ciphertext, fo_mapping, fo_result, not_fo>>

\* lines 259-260: the chi-squared of best_text is what is returned as score
FoReturn ==
    /\ fo_pc = "loop"
    /\ fo_iteration >= FoIterations
    /\ fo_result' = [text |-> fo_best_text, mapping |-> fo_best_mapping,
                     score |-> calculate_chi_squared(fo_best_text, fo_best_mapping)]
    /\ fo_pc' = "returned"
    /\ UNCHANGED <<fo_ciphertext, fo_mapping, fo_best_mapping, fo_best_text, fo_best_score,
                   fo_iteration, fo_test_mapping, not_fo>>

FoNext == FoBegin \/ FoTrySwap \/ FoReturn

-----------------------------------------------------------------------------
(* PermutationBreaker._simulated_annealing and the annealing branch of      *)
(* break_cipher                                                             *)
(*                                                                          *)
(* temp is a double.  The model follows it at the bottom of the range of    *)
(* the doubles, where its values are whole multiples of the smallest        *)
(* positive double (5e-324) and temp is that multiple.  The temperature     *)
(* 50.0 * 0.99^k of a run with the default parameters comes down to 100 of  *)
(* these units, then 99, 98, ..., after some 74000 of its 100000            *)
(* iterations.  The branch is taken for key lengths above 8; its code reads *)
(* key_length only in range(key_length), and the model runs it at the key   *)
(* lengths 2..MaxSaKey.                                                     *)

\* the temperature of a run at its start, in units of the smallest positive
\* double
Temperature == 100

\* temp * cooling_rate with cooling_rate = 0.99 truncated toward zero
cool_truncating(temp) == (temp * 99) \div 100

\* temp *= cooling_rate with cooling_rate = 0.99: the product is rounded to
\* the nearest double, and an exact half goes down because the double 0.99 is
\* a little below 99/100
cool(temp) == (temp * 99 + 49) \div 100

\* a key with one position overwritten by the other instead of exchanged
swap_positions_overwriting(key, i, j) ==
    [p \in 1..Len(key) |-> IF p = i + 1 THEN key[j + 1] ELSE key[p]]

\* key with its elements at positions i and j (0-based) exchanged
swap_positions(key, i, j) ==
    [p \in 1..Len(key) |->
        IF p = i + 1 THEN key[j + 1] ELSE IF p = j + 1 THEN key[i + 1] ELSE key[p]]

\* the comparison of break_cipher between runs with ties going to the later
\* run
overall_improves_or_ties(new_score, best_overall_score) == new_score >= best_overall_score

\* score > best_overall_score
overall_improves(new_score, best_overall_score) == new_score > best_overall_score

\* iterations of a run (100000 in the code) and runs of break_cipher (20 in
\* the code)
SaIterations == 104
SaRuns == 2

MaxSaKey == 2

SaCiphertexts == { <<"A", "D">>, <<"D", "A", "A">>, <<"A", "D", "A", "D">> }

SaIdle ==
    /\ sa_pc = "idle"
    /\ sa_ciphertext = <<>>
    /\ sa_key_length = 0
    /\ sa_temp = 0
    /\ sa_current_key = <<>>
    /\ sa_current_score = 0
    /\ sa_best_key = <<>>
    /\ sa_best_text = <<>>
    /\ sa_best_score = 0
    /\ sa_i = 0
    /\ sa_j = 0
    /\ sa_text = <<>>
    /\ sa_score = 0
    /\ sa_iteration = 0
    /\ sa_key_before = <<>>
    /\ sa_raised = "none"
    /\ sa_runs = 0
    /\ sa_run_results = <<>>
    /\ sa_best_overall_key = None
    /\ sa_best_overall_text = None
    /\ sa_best_overall_score = NegInf
    /\ sa_result = [text |-> None, key |-> None]

\* break_cipher(ciphertext, key_length) in its annealing branch, before the
\* first run (lines 98-100 have run)
SaInit ==
    /\ sa_pc = "next_run"
    /\ sa_ciphertext \in SaCiphertexts
    /\ sa_key_length \in 2..MaxSaKey
    /\ sa_temp = 0
    /\ sa_current_key = <<>>
    /\ sa_current_score = 0
    /\ sa_best_key = <<>>
    /\ sa_best_text = <<>>
    /\ sa_best_score = 0
    /\ sa_i = 0
    /\ sa_j = 0
    /\ sa_text = <<>>
    /\ sa_score = 0
    /\ sa_iteration = 0
    /\ sa_key_before = <<>>
    /\ sa_raised = "none"
    /\ sa_runs = 0
    /\ sa_run_results = <<>>
    /\ sa_best_overall_key = None
    /\ sa_best_overall_text = None
    /\ sa_best_overall_score = NegInf
    /\ sa_result = [text |-> None, key |-> None]

vars_sa_overall ==
    <<sa_ciphertext, sa_key_length, sa_runs, sa_run_results, sa_best_overall_key,
      sa_best_overall_text, sa_best_overall_score, sa_result>>

\* _simulated_annealing up to its loop (lines 43-52): a shuffled key
SaBeginRun ==
    /\ sa_pc = "next_run"
    /\ sa_runs < SaRuns
    /\ \E key \in Permutations0(sa_key_length) :
          /\ sa_best_key' = key
          /\ sa_best_text' = _columnar_decrypt(sa_ciphertext, key)
          /\ sa_best_score' = score(_columnar_decrypt(sa_ciphertext, key))
          /\ sa_current_key' = key
          /\ sa_current_score' = score(_columnar_decrypt(sa_ciphertext, key))
          /\ sa_key_before' = key
    /\ sa_temp' = Temperature
    /\ sa_iteration' = 0
    /\ sa_pc' = "loop"
    /\ UNCHANGED <<sa_i, sa_j, sa_text, sa_score, sa_raised, vars_sa_overall, not_sa>>

\* the first half of an iteration (lines 55-61): two positions drawn, the
\* swap made in current_key, the candidate decrypted and scored
SaSwap ==
    /\ sa_pc = "loop"
    /\ sa_iteration < SaIterations
    /\ \E i, j \in 0..(sa_key_length - 1) :
          /\ i # j
          /\ sa_i' = i
          /\ sa_j' = j
          /\ sa_current_key' = swap_positions(sa_current_key, i, j)
          /\ sa_text' = _columnar_decrypt(sa_ciphertext, swap_positions(sa_current_key, i, j))
          /\ sa_score' =
                score(_columnar_decrypt(sa_ciphertext, swap_positions(sa_current_key, i, j)))
    /\ sa_key_before' = sa_current_key
    /\ sa_pc' = "accept"
    /\ UNCHANGED <<sa_temp, sa_current_score, sa_best_key, sa_best_text, sa_best_score,
                   sa_iteration, sa_raised, vars_sa_overall, not_sa>>

\* the second half (lines 63-72): delta > 0 or random.random() <
\* math.exp(delta / temp).  The division raises ZeroDivisionError for a temp
\* of 0.0; exp(0) is 1.0, above every random.random(); for delta < 0 both
\* outcomes of the comparison are kept.
SaAccept ==
    /\ sa_pc = "accept"
    /\ LET delta == sa_score - sa_current_score
           accept == /\ sa_current_score' = sa_score
                     /\ IF sa_score > sa_best_score
                        THEN /\ sa_best_score' = sa_score
                             /\ sa_best_key' = sa_current_key
                             /\ sa_best_text' = sa_text
                        ELSE UNCHANGED <<sa_best_score, sa_best_key, sa_best_text>>
                     /\ UNCHANGED sa_current_key
           reject == /\ sa_current_key' = swap_positions(sa_current_key, sa_i, sa_j)
                     /\ UNCHANGED <<sa_current_score, sa_best_score, sa_best_key,
                                    sa_best_text>>
       IN IF delta <= 0 /\ sa_temp = 0
          THEN /\ sa_raised' = "ZeroDivisionError"
               /\ sa_pc' = "raised"
               /\ UNCHANGED <<sa_temp, sa_iteration, sa_current_key, sa_current_score,
                              sa_best_score, sa_best_key, sa_best_text>>
          ELSE /\ IF delta >= 0 THEN accept ELSE (accept \/ reject)
               /\ sa_temp' = cool(sa_temp)
               /\ sa_iteration' = sa_iteration + 1
               /\ sa_pc' = "loop"
               /\ UNCHANGED sa_raised
    /\ UNCHANGED <<sa_i, sa_j, sa_text, sa_score, sa_key_before, vars_sa_overall, not_sa>>

\* the run returns (best_key, best_text); break_cipher scores the text and
\* keeps the run when its score is greater than the best so far (lines 74,
\* 102-109)
SaEndRun ==
    /\ sa_pc = "loop"
    /\ sa_iteration >= SaIterations
    /\ LET run_score == score(sa_best_text)
       IN /\ sa_run_results' = Append(sa_run_results,
                                      [key |-> sa_best_key, text |-> sa_best_text,
                                       score |-> run_score])
          /\ IF overall_improves(run_score, sa_best_overall_score)
             THEN /\ sa_best_overall_score' = run_score
                  /\ sa_best_overall_key' = sa_best_key
                  /\ sa_best_overall_text' = sa_best_text
             ELSE UNCHANGED <<sa_best_overall_score, sa_best_overall_key,
                              sa_best_overall_text>>
    /\ sa_runs' = sa_runs + 1
    /\ sa_pc' = "next_run"
    /\ UNCHANGED <<sa_ciphertext, sa_key_length, sa_temp, sa_current_key, sa_current_score,
                   sa_best_key, sa_best_text, sa_best_score, sa_i, sa_j, sa_text, sa_score,
                   sa_iteration, sa_key_before, sa_raised, sa_result, not_sa>>

\* break_cipher returns (best_overall_text, best_overall_key)
SaReturn ==
    /\ sa_pc = "next_run"
    /\ sa_runs >= SaRuns
    /\ sa_result' = [text |-> sa_best_overall_text, key |-> sa_best_overall_key]
    /\ sa_pc' = "returned"
    /\ UNCHANGED <<sa_ciphertext, sa_key_length, sa_temp, sa_current_key, sa_current_score,
                   sa_best_key, sa_best_text, sa_best_score, sa_i, sa_j, sa_text, sa_score,
                   sa_iteration, sa_key_before, sa_raised, sa_runs, sa_run_results,
                   sa_best_overall_key, sa_best_overall_text, sa_best_overall_score, not_sa>>

SaNext == SaBeginRun \/ SaSwap \/ SaAccept \/ SaEndRun \/ SaReturn

-----------------------------------------------------------------------------
(* Specifications: one per component, the other components idle *)

InitColumnar == RtInit /\ SrIdle /\ ScIdle /\ FaIdle /\ PbIdle /\ SbIdle /\ FoIdle /\ SaIdle

SpecColumnar == InitColumnar /\ [][RtNext]_vars

InitSubstitution == SrInit /\ RtIdle /\ ScIdle /\ FaIdle /\ PbIdle /\ SbIdle /\ FoIdle /\ SaIdle

SpecSubstitution == InitSubstitution /\ [][SrNext]_vars

\* scoring: a scorer built from a well-formed corpus, any text
InitScore ==
    /\ ScNew({EnglishQuadgrams, OtherQuadgrams}, 1..MaxNgram, SeqsUpTo(ScChars, MaxScLen))
    /\ RtIdle /\ SrIdle /\ FaIdle /\ PbIdle /\ SbIdle /\ FoIdle /\ SaIdle

SpecScore == InitScore /\ [][ScNext]_vars

\* the analyzer's methods: an analyzer built from no CSV or from a CSV, any
\* text
InitFrequency ==
    /\ FaNew({MissingCsv, UnigramCsv}, SeqsUpTo(FaChars, MaxFaLen))
    /\ RtIdle /\ SrIdle /\ ScIdle /\ PbIdle /\ SbIdle /\ FoIdle /\ SaIdle

SpecFrequency == InitFrequency /\ [][FaNext]_vars

\* the corpus loaders: either a scorer or an analyzer is constructed, from a
\* file of up to MaxLines records (an analyzer also from a missing file)
InitLoad ==
    \/ /\ ScNew({[exists |-> TRUE, lines |-> l] : l \in SeqsUpTo(NgLines, MaxLines)},
                {2}, {<<"A", "D", "A">>})
       /\ RtIdle /\ SrIdle /\ FaIdle /\ PbIdle /\ SbIdle /\ FoIdle /\ SaIdle
    \/ /\ FaNew({[exists |-> TRUE, rows |-> r] : r \in SeqsUpTo(CsvRows, MaxLines)}
                    \cup {MissingCsv},
                {<<"A", "D", "A">>})
       /\ RtIdle /\ SrIdle /\ ScIdle /\ PbIdle /\ SbIdle /\ FoIdle /\ SaIdle

SpecLoad == InitLoad /\ [][ScNext \/ FaNext]_vars

\* PermutationBreaker.break_cipher with a scorer built from EnglishQuadgrams
InitPermutation ==
    PbInit /\ ScBuilt /\ RtIdle /\ SrIdle /\ FaIdle /\ SbIdle /\ FoIdle /\ SaIdle

SpecPermutation == InitPermutation /\ [][PbNext]_vars

\* SubstitutionBreaker.break_cipher with a scorer built from EnglishQuadgrams
\* and an analyzer on the built-in frequency table
InitSubstitutionBreaker ==
    SbInit /\ ScBuilt /\ FaBuilt /\ RtIdle /\ SrIdle /\ PbIdle /\ FoIdle /\ SaIdle

SpecSubstitutionBreaker == InitSubstitutionBreaker /\ [][SbNext]_vars

\* break_cipher in its frequency-only mode, with an analyzer on the built-in
\* frequency table (the scorer is built but not used)
InitFrequencyOnly ==
    FoInit /\ ScBuilt /\ FaBuilt /\ RtIdle /\ SrIdle /\ PbIdle /\ SbIdle /\ SaIdle

SpecFrequencyOnly == InitFrequencyOnly /\ [][FoNext]_vars

\* break_cipher in hill-climbing mode with either value of
\* use_frequency_initial.  The call is sequential code that runs on until it
\* returns or raises: whenever the control flow has a next step, it is taken.
InitHillClimbing ==
    /\ SbInit \/ SbInitRandomOnly
    /\ ScBuilt /\ FaBuilt /\ RtIdle /\ SrIdle /\ PbIdle /\ FoIdle /\ SaIdle

SpecHillClimbing == InitHillClimbing /\ [][SbNext]_vars /\ WF_vars_control(SbControl)

\* break_cipher with max_iterations a multiple of 10: the plateau escape of
\* _hill_climb with a threshold above 0
InitPlateau ==
    SbInitPlateau /\ ScBuilt /\ FaBuilt /\ RtIdle /\ SrIdle /\ PbIdle /\ FoIdle /\ SaIdle

SpecPlateau == InitPlateau /\ [][SbNext]_vars

\* SubstitutionBreaker.break_cipher in either mode: hill climbing or
\* frequency only
InitSubstitutionModes == InitSubstitutionBreaker \/ InitFrequencyOnly

SpecSubstitutionModes == InitSubstitutionModes /\ [][SbNext \/ FoNext]_vars

\* PermutationBreaker.break_cipher in its annealing branch, with a scorer
\* built from EnglishQuadgrams
InitAnnealing ==
    SaInit /\ ScBuilt /\ RtIdle /\ SrIdle /\ FaIdle /\ PbIdle /\ SbIdle /\ FoIdle

SpecAnnealing == InitAnnealing /\ [][SaNext]_vars

\* PermutationBreaker.break_cipher in either branch
InitPermutationBreaker == InitPermutation \/ InitAnnealing

SpecPermutationBreaker == InitPermutationBreaker /\ [][PbNext \/ SaNext]_vars

-----------------------------------------------------------------------------
(* Properties *)

\* a space-free upper-case text
IsCleanUpper(s) == \A i \in 1..Len(s) : s[i] \in UpperLetters

\* C1: for every permutation key and every space-free upper-case text of any
\* length (a multiple of the key length, not a multiple, shorter than the
\* key), decrypting the encryption under the same key gives the text back.
C1_RoundTrip ==
    (rt_pc = "decrypted" /\ IsCleanUpper(rt_plain)) => rt_out = rt_plain

\* a round trip of a text whose length is no multiple of the key length, under
\* a key that is not its own inverse
C1_Witness ==
    /\ rt_pc = "decrypted"
    /\ IsCleanUpper(rt_plain)
    /\ Len(rt_key) = 3
    /\ Len(rt_plain) = 4
    /\ rt_key = <<1, 2, 0>>
    /\ rt_plain = <<"A", "D", "D", "A">>
    /\ rt_out = rt_plain

\* a text of upper-case letters and non-letters
NoLowerCase(s) == \A i \in 1..Len(s) : s[i] \notin LowerLetters

\* C2: for every bijection m of the alphabet and every text of upper-case
\* letters and non-letters, decrypting the encryption under m with the inverse
\* of m gives the text back: letters restored, non-letters unchanged in place.
C2_RoundTrip ==
    (sr_pc = "decrypted" /\ NoLowerCase(sr_plain)) => sr_out = sr_plain

\* a round trip of a text with letters and non-letters under a mapping that is
\* not its own inverse
C2_Witness ==
    /\ sr_pc = "decrypted"
    /\ sr_plain = <<"A", "1", "D">>
    /\ sr_mapping = [x \in LetterSet |->
                       CASE x = "A" -> "D" [] x = "D" -> "E" [] x = "E" -> "A" [] OTHER -> x]
    /\ sr_cipher = <<"D", "1", "E">>
    /\ sr_out = sr_plain

\* C3: create_frequency_mapping returns, for any non-empty ciphertext, a full
\* bijection of the alphabet: every cipher letter a key, every plain letter a
\* value exactly once.
C3_AlwaysBijection ==
    ("create_frequency_mapping" \in fa_called /\ fa_text # <<>>) => IsBijection(fa_mapping)

\* lexicographic order of two keys of the same length
LexLess(a, b) ==
    \E i \in 1..Len(a) : a[i] < b[i] /\ \A j \in 1..(i - 1) : a[j] = b[j]

RECURSIVE Factorial(_)
Factorial(k) == IF k <= 1 THEN 1 ELSE k * Factorial(k - 1)

\* C5: for a key length k from 1 to 8, break_cipher tries all k! permutations
\* and returns the first in enumeration order whose decryption has the
\* greatest score of them all; when the ciphertext is the encryption of a
\* text p under a key of length k, the text returned scores at least as high
\* as p.
C5_BruteForceMaximum ==
    (pb_pc = "returned" /\ pb_key_length >= 1 /\ pb_key_length <= BruteForceMaxKey) =>
        LET all == Permutations0(pb_key_length)
            sc(key) == score(_columnar_decrypt(pb_ciphertext, key))
        IN /\ Len(pb_tried) = Factorial(pb_key_length)
           /\ {pb_tried[i] : i \in 1..Len(pb_tried)} = all
           /\ pb_result.key \in all
           /\ pb_result.text = _columnar_decrypt(pb_ciphertext, pb_result.key)
           /\ \A key \in all : sc(key) <= sc(pb_result.key)
           /\ \A key \in all : sc(key) = sc(pb_result.key) => ~LexLess(key, pb_result.key)
           /\ pb_true_key # <<>> => score(pb_result.text) >= score(pb_plain)

\* a search over the 3! keys of a ciphertext encrypted under <<1, 2, 0>> in
\* which the greatest score is attained by more than one key and the key
\* returned is not the first one tried
C5_Witness ==
    /\ pb_pc = "returned"
    /\ pb_key_length = 3
    /\ pb_true_key = <<1, 2, 0>>
    /\ Len(pb_plain) = 4
    /\ Len(pb_tried) = 6
    /\ pb_result.key # <<0, 1, 2>>
    /\ \E key \in Permutations0(3) :
          /\ key # pb_result.key
          /\ score(_columnar_decrypt(pb_ciphertext, key)) = score(pb_result.text)

\* C7: break_cipher rejects a key length that is <= 0 or greater than the
\* length of the ciphertext before any search begins: no candidate key is
\* decrypted or scored and nothing is returned.
C7_BadKeyLengthRejected ==
    (pb_pc # "idle"
     /\ (pb_key_length <= 0
         \/ pb_key_length > Len(Remove(Remove(Upper(pb_ciphertext), " "), "\n")))) =>
        /\ pb_tried = <<>>
        /\ pb_pc # "returned"

\* the number of ordered pairs of distinct positions of the text's letters
\* that hold the same letter
CoincidingPairs(text) ==
    LET only == letters_only(text)
    IN Cardinality({pr \in (1..Len(only)) \X (1..Len(only)) :
                      pr[1] # pr[2] /\ only[pr[1]] = only[pr[2]]})

IcCalled == "calculate_index_of_coincidence" \in fa_called

\* C8 as stated: the index of coincidence lies in [0, 1): with N >= 2 letters
\* its numerator, the sum of n_i * (n_i - 1), is strictly smaller than
\* N * (N - 1); with N < 2 it is 0.
C8_HalfOpenInterval ==
    IcCalled =>
        LET n == Len(letters_only(fa_text))
        IN /\ fa_ic.num >= 0
           /\ fa_ic.num < fa_ic.den
           /\ n < 2 => fa_ic.num = 0

\* C8 as amended: the index of coincidence lies in [0, 1]: with N >= 2 letters
\* it is the sum of n_i * (n_i - 1) over N * (N - 1), where the numerator is at
\* most N * (N - 1) and equals it exactly when all N letters are the same; with
\* N < 2 it is 0.
C8_ClosedInterval ==
    IcCalled =>
        LET only == letters_only(fa_text)
            n == Len(only)
        IN /\ fa_ic.num >= 0
           /\ fa_ic.den > 0
           /\ fa_ic.num <= fa_ic.den
           /\ n < 2 => fa_ic.num = 0
           /\ n >= 2 => /\ fa_ic.num = CoincidingPairs(fa_text)
                        /\ fa_ic.den = n * (n - 1)
                        /\ (fa_ic.num = fa_ic.den) <=> (\A i \in 1..n : only[i] = only[1])

\* the index of coincidence of a text whose two letters are the same: 2/2
C8_Witness ==
    /\ IcCalled
    /\ fa_text = <<"D", "1", "d">>
    /\ fa_ic = [num |-> 2, den |-> 2]

\* a record of the n-gram corpus of two tokens with an integer count
WellFormedLine(parts) == Len(parts) = 2 /\ int_ok(parts[2])

\* a row of the unigram CSV with a word and an integer count (fields after
\* the count are not read)
WellFormedRow(row) == Len(row) >= 2 /\ int_ok(row[2])

\* C10: in both corpus loaders a malformed record is skipped on its own: the
\* load of a file with a well-formed record ends as it would on the file
\* without its malformed records, with the table built from the well-formed
\* ones.
C10_MalformedSkipped ==
    /\ (sc_pc \in {"ready", "raised"} /\ \E i \in 1..Len(sc_file.lines) :
                                            WellFormedLine(sc_file.lines[i])) =>
          LET clean == _load_ngrams([exists |-> sc_file.exists,
                                     lines |-> SelectSeq(sc_file.lines, WellFormedLine)])
          IN /\ sc_raised = clean.raised
             /\ sc_ngrams = clean.ngrams
             /\ sc_floor = clean.floor
    /\ fa_pc = "ready" =>
          LET clean == _load_char_frequencies_from_csv(
                           [exists |-> fa_csv.exists,
                            rows |-> SelectSeq(fa_csv.rows, WellFormedRow)])
          IN /\ fa_char_frequencies = clean.char_frequencies
             /\ fa_freq_order = clean.freq_order

\* the windows of a text: the start indices of its length-n slices
Windows(text, n) == 0..(Len(text) - n)

RECURSIVE SumOver(_, _)
SumOver(S, f) ==
    IF S = {} THEN 0
    ELSE LET x == CHOOSE y \in S : TRUE IN f[x] + SumOver(S \ {x}, f)

\* the sum of the table values of the windows of the normalised text, taken
\* n-gram by n-gram: each table entry as often as it occurs as a window, and
\* the floor for the windows that are not in the table
WindowSum(text) ==
    LET t == Remove(Remove(Upper(text), " "), "\n")
        W == Windows(t, sc_n)
        Occ(g) == Cardinality({i \in W : SubSeq(t, i + 1, i + sc_n) = g})
        Hit == [g \in DOMAIN sc_ngrams |-> Occ(g) * sc_ngrams[g]]
        hits == Cardinality({i \in W : SubSeq(t, i + 1, i + sc_n) \in DOMAIN sc_ngrams})
    IN SumOver(DOMAIN sc_ngrams, Hit) + (Cardinality(W) - hits) * sc_floor

\* C4: score(t) is the sum over every overlapping length-n window of the
\* upper-cased text without spaces and newlines of the window's table value,
\* or the floor when the table lacks it; a text shorter than n scores 0; a
\* second call gives the same result and the table and floor are as built.
C4_ScoreIsWindowSum ==
    sc_pc = "ready" =>
        /\ \A k \in 1..Len(sc_results) :
              /\ sc_results[k] = WindowSum(sc_text)
              /\ Len(Remove(Remove(Upper(sc_text), " "), "\n")) < sc_n => sc_results[k] = 0
              /\ sc_results[k] = sc_results[1]
        /\ sc_ngrams = _load_ngrams(sc_file).ngrams
        /\ sc_floor = _load_ngrams(sc_file).floor

\* two calls on a text with a space and a lower-case letter, one window in
\* the table and one not
C4_Witness ==
    /\ sc_pc = "ready"
    /\ sc_file = EnglishQuadgrams
    /\ sc_n = 2
    /\ sc_text = <<"a", " ", "D", "D">>
    /\ Len(sc_results) = 2
    /\ sc_results[2] = sc_ngrams[TokAD] + sc_floor


\* C6: break_cipher in its default hill-climbing mode, on an empty ciphertext
\* or one without an alphabetic character, raises no error, and what it
\* returns has the ciphertext unchanged as its plaintext.
C6_DegenerateDoesNotFail ==
    (bc_pc # "idle" /\ letters_only(bc_ciphertext) = <<>>) =>
        /\ bc_raised = "none"
        /\ bc_pc = "returned" => bc_result.text = bc_ciphertext

\* the index of the earliest run whose score is the maximum of the runs
EarliestBest(results) ==
    CHOOSE i \in 1..Len(results) :
        /\ \A j \in 1..Len(results) : results[j].score <= results[i].score
        /\ \A j \in 1..(i - 1) : results[j].score < results[i].score

\* C9: break_cipher in hill-climbing mode with R >= 1 restarts, on a
\* ciphertext with a letter, makes R runs, the first from the frequency
\* mapping of the ciphertext and the others from bijections, and returns the
\* (text, mapping, score) of the run with the greatest score, the earliest
\* such run when several tie.
C9_BestOfRuns ==
    (bc_pc = "returned" /\ letters_only(bc_ciphertext) # <<>>) =>
        /\ Len(bc_run_results) = sb_num_restarts
        /\ bc_run_results[1].initial = create_frequency_mapping(bc_ciphertext)
        /\ \A i \in 2..Len(bc_run_results) : bc_run_results[i].initial \in Bijections
        /\ LET won == bc_run_results[EarliestBest(bc_run_results)]
           IN bc_result = [text |-> won.text, mapping |-> won.mapping,
                           score |-> won.score]

\* break_cipher has returned after two runs that tie on score with different
\* mappings
C9_Witness ==
    /\ bc_pc = "returned"
    /\ letters_only(bc_ciphertext) # <<>>
    /\ Len(bc_run_results) = 2
    /\ bc_run_results[1].score = bc_run_results[2].score
    /\ bc_run_results[1].mapping # bc_run_results[2].mapping
    /\ bc_result.mapping = bc_run_results[1].mapping

\* the unigram CSV yields no counted letter: no row, or only rows that are
\* left out or whose word has no letter of the alphabet or whose count is 0
NoCountedLetters(csv_file) ==
    count_rows(csv_file.rows, [ch \in LetterSet |-> 0], 0).total = 0

\* C11: when the unigram CSV is missing, or exists and yields no counted
\* letter, the analyzer is constructed and its reference table is the
\* built-in table with the built-in order.
C11_FallbackTable ==
    (fa_pc = "ready" /\ (~fa_csv.exists \/ NoCountedLetters(fa_csv))) =>
        /\ fa_char_frequencies = DEFAULT_CHAR_FREQUENCIES
        /\ fa_freq_order = DEFAULT_FREQ_ORDER

\* the chi-squared of the plaintext a mapping produces from the ciphertext of
\* the frequency-only call
ChiOf(mapping) == calculate_chi_squared(_decrypt(fo_ciphertext, mapping), mapping)

\* C12: in the frequency-only mode a trial swap replaces the retained best
\* mapping only if the chi-squared of its plaintext is strictly lower than
\* that of the retained mapping's plaintext, and the chi-squared returned is
\* never greater than that of the initial frequency mapping's plaintext.
C12_OnlyStrictlyLowerChi ==
    /\ [][(fo_pc = "loop" /\ fo_best_mapping' # fo_best_mapping) =>
              ChiOf(fo_best_mapping') < ChiOf(fo_best_mapping)]_vars
    /\ [](fo_pc = "returned" => fo_result.score <= ChiOf(fo_mapping))

\* a _hill_climb run is in its loop
Searching == bc_run_state = "SEARCHING" /\ bc_pc \in {"hill_climb", "plateau_test"}

\* C13: throughout a _hill_climb run best_score never decreases and is at
\* least the score of the current mapping, however that mapping was entered
\* (improvement, soft acceptance, forced swap), so that the score returned is
\* the greatest score a current mapping of the run had.
C13_BestDominatesCurrent ==
    /\ [](Searching => hc_best_score >= hc_current_score)
    /\ [][(Searching /\ Searching') => hc_best_score' >= hc_best_score]_vars

\* the acceptance test of the iteration under way evaluates exp(delta / temp)
ExpEvaluated == sa_pc = "accept" /\ sa_score - sa_current_score <= 0

\* C14: in every _simulated_annealing run temp is strictly positive whenever
\* exp(delta / temp) is evaluated, and no run raises an arithmetic error.
C14_TempStaysPositive ==
    /\ ExpEvaluated => sa_temp > 0
    /\ sa_raised = "none"

\* exp(delta / temp) is evaluated after temp has stopped decreasing, at 49
\* times the smallest positive double
C14_Witness ==
    /\ ExpEvaluated
    /\ sa_temp = 49
    /\ cool(sa_temp) = sa_temp
    /\ sa_iteration > 60

\* a run of _simulated_annealing is under way
Annealing == sa_pc \in {"loop", "accept"}

\* the index of the earliest run whose score is the maximum of the runs
EarliestBestRun(results) ==
    CHOOSE i \in 1..Len(results) :
        /\ \A j \in 1..Len(results) : results[j].score <= results[i].score
        /\ \A j \in 1..(i - 1) : results[j].score < results[i].score

\* C18: throughout a _simulated_annealing run best_score is at least
\* current_score and at least the score of every candidate key evaluated,
\* accepted or not, best_text is the decryption under best_key and best_score
\* never decreases; break_cipher returns the result of the earliest of its
\* runs with the greatest score.
C18_BestEver ==
    /\ [](Annealing => /\ sa_best_score >= sa_current_score
                       /\ sa_best_text = _columnar_decrypt(sa_ciphertext, sa_best_key))
    /\ [][(sa_pc = "accept" /\ sa_pc' = "loop") =>
              /\ sa_best_score' >= sa_score
              /\ sa_best_score' >= sa_best_score]_vars
    /\ [](sa_pc = "returned" =>
              /\ Len(sa_run_results) = SaRuns
              /\ LET won == sa_run_results[EarliestBestRun(sa_run_results)]
                 IN sa_result = [text |-> won.text, key |-> won.key])

\* break_cipher has returned after two runs that tie on score with different
\* keys
C18_Witness ==
    /\ sa_pc = "returned"
    /\ sa_run_results[1].score = sa_run_results[2].score
    /\ sa_run_results[1].key # sa_run_results[2].key
    /\ sa_result.key = sa_run_results[1].key

\* key is a permutation of 0..k-1 of length k
IsPermutation0(key, k) == Len(key) = k /\ {key[p] : p \in 1..Len(key)} = 0..(k - 1)

\* b is a with exactly two distinct positions exchanged
OneSwap(a, b) ==
    /\ Len(a) = Len(b)
    /\ \E p, q \in 1..Len(a) :
          /\ p # q
          /\ b[p] = a[q] /\ b[q] = a[p] /\ b # a
          /\ \A r \in 1..Len(a) : r \notin {p, q} => b[r] = a[r]

\* C19: for a key length k >= 1 every key break_cipher decrypts with or
\* returns, in the exhaustive search and in annealing, is a permutation of
\* 0..k-1; in annealing an iteration changes current_key by exactly one swap of
\* two distinct positions and a rejected move restores current_key to its
\* value before the iteration.
C19_KeysArePermutations ==
    /\ [](pb_key_length >= 1 =>
              /\ \A t \in 1..Len(pb_tried) : IsPermutation0(pb_tried[t], pb_key_length)
              /\ pb_pc = "returned" => IsPermutation0(pb_result.key, pb_key_length))
    /\ [](Annealing => /\ IsPermutation0(sa_current_key, sa_key_length)
                       /\ IsPermutation0(sa_best_key, sa_key_length))
    /\ [](sa_pc = "returned" => IsPermutation0(sa_result.key, sa_key_length))
    /\ [][(sa_pc = "loop" /\ sa_pc' = "accept") =>
              OneSwap(sa_current_key, sa_current_key')]_vars
    /\ [][(sa_pc = "accept" /\ sa_pc' = "loop") =>
              /\ sa_current_score' # sa_score => sa_current_key' = sa_key_before
              /\ sa_current_score' = sa_score => sa_current_key' = sa_current_key]_vars

\* a move of an annealing run has been rejected and current_key is back at
\* its value before the iteration
C19_Witness ==
    /\ sa_pc = "loop"
    /\ sa_iteration >= 1
    /\ sa_score < sa_current_score
    /\ sa_current_key = sa_key_before
    /\ IsPermutation0(sa_current_key, sa_key_length)


\* the text has a letter
HasLetter(text) == letters_only(text) # <<>>

\* after differs from before by the exchange of the targets of exactly two
\* distinct letters
ExchangesTwo(before, after) ==
    /\ DOMAIN after = DOMAIN before
    /\ \E a, b \in DOMAIN before :
          /\ a # b
          /\ after[a] = before[b]
          /\ after[b] = before[a]
          /\ after[a] # before[a]
          /\ \A c \in DOMAIN before \ {a, b} : after[c] = before[c]

\* the mappings break_cipher holds in its hill-climbing mode are bijections
HillClimbMappingsAreBijections ==
    /\ bc_run_state # "none" => IsBijection(bc_initial_mapping)
    /\ bc_run_state \in {"SEARCHING", "DONE"} =>
          IsBijection(hc_current_mapping) /\ IsBijection(hc_best_mapping)
    /\ hc_neighbor_mapping # <<>> => IsBijection(hc_neighbor_mapping)
    /\ bc_pc = "returned" => IsBijection(bc_result.mapping)

\* the mappings break_cipher holds in its frequency-only mode are bijections
FrequencyOnlyMappingsAreBijections ==
    /\ fo_pc \in {"loop", "returned"} =>
          IsBijection(fo_mapping) /\ IsBijection(fo_best_mapping)
    /\ fo_test_mapping # <<>> => IsBijection(fo_test_mapping)
    /\ fo_pc = "returned" => IsBijection(fo_result.mapping)

\* C15: for a ciphertext with a letter, every mapping break_cipher holds as
\* initial, current, neighbour or best, in either mode, and the mapping it
\* returns, is a bijection of the alphabet; the neighbour _swap_mapping makes
\* differs from the mapping passed to it by the exchange of the targets of
\* exactly two letters, and the mapping passed (and the copy kept as best) is
\* as it was unless the neighbour is assigned to it.
C15_MappingsAreBijections ==
    /\ []((bc_pc # "idle" /\ HasLetter(bc_ciphertext)) => HillClimbMappingsAreBijections)
    /\ []((fo_pc # "idle" /\ HasLetter(fo_ciphertext)) =>
             FrequencyOnlyMappingsAreBijections)
    /\ [][(HasLetter(bc_ciphertext) /\ bc_pc = "hill_climb" /\ bc_pc' = "plateau_test") =>
             /\ ExchangesTwo(hc_current_mapping, hc_neighbor_mapping')
             /\ hc_current_mapping' \in {hc_current_mapping, hc_neighbor_mapping'}
             /\ hc_best_mapping' \in {hc_best_mapping, hc_neighbor_mapping'}]_vars
    /\ [][(HasLetter(bc_ciphertext) /\ bc_pc = "plateau_test"
              /\ hc_current_mapping' # hc_current_mapping) =>
             /\ ExchangesTwo(hc_current_mapping, hc_current_mapping')
             /\ hc_best_mapping' = hc_best_mapping]_vars

\* in the second run, from a random mapping, a neighbour has been made and
\* rejected: the current mapping is the one that was passed to _swap_mapping
C15_Witness ==
    /\ bc_pc = "plateau_test"
    /\ HasLetter(bc_ciphertext)
    /\ bc_runs_started = 2
    /\ IsBijection(hc_neighbor_mapping)
    /\ ExchangesTwo(hc_current_mapping, hc_neighbor_mapping)
    /\ hc_best_mapping # hc_current_mapping

\* the step is the accept/reject step of an iteration of _hill_climb: the
\* neighbour is made and scored, then adopted or rejected
AcceptRejectStep == bc_pc = "hill_climb" /\ bc_pc' = "plateau_test"

ForcedSwap == bc_pc = "plateau_test" /\ hc_current_mapping' # hc_current_mapping

\* at the end of the iteration under way, at least max_iterations / 10
\* iterations in a row have left the current score without an improvement
\* (the counter counts the rejected iterations since the last accepted move
\* or forced swap)
PlateauReached ==
    bc_pc = "plateau_test" /\ hc_no_improvement_count * 10 >= sb_max_iterations

\* C17: in _hill_climb, whenever max_iterations / 10 consecutive iterations
\* have passed without an improvement of the current score, a swap is forced
\* on the current mapping and the acceptance probability is reset to half its
\* initial value; no swap is forced earlier than that.
C17_PlateauEscape ==
    /\ [][PlateauReached =>
             /\ ForcedSwap
             /\ ExchangesTwo(hc_current_mapping, hc_current_mapping')
             /\ hc_no_improvement_count' = 0
             /\ hc_acceptance_prob' =
                   (IF sb_use_soft_climbing THEN InitialAcceptanceProb ELSE 0) \div 2]_vars
    /\ [][ForcedSwap => PlateauReached]_vars

\* the distinct letters of the text
DistinctLetters(text) == {letters_only(text)[i] : i \in 1..Len(letters_only(text))}

\* C20: when the ciphertext has fewer than 2 distinct letters, the initial
\* mapping of the frequency-seeded run of break_cipher is a random bijection,
\* not the output of create_frequency_mapping.
C20_RandomSeedForFewLetters ==
    (/\ bc_use_frequency_initial
     /\ bc_runs_started = 1
     /\ bc_run_state # "none"
     /\ Cardinality(DistinctLetters(bc_ciphertext)) < 2) =>
        /\ bc_initial_from = "_random_mapping"
        /\ IsBijection(bc_initial_mapping)

\* bc_run_state changes only along INIT -> SEARCHING -> DONE: a run begins in
\* INIT (the first one, or the next after a run that is DONE, which is one
\* more run started), and becomes DONE only after max_iterations iterations
RunStateMachine ==
    bc_run_state' # bc_run_state =>
        \/ /\ bc_run_state \in {"none", "DONE"}
           /\ bc_run_state' = "INIT"
           /\ bc_runs_started' = bc_runs_started + 1
        \/ /\ bc_run_state = "INIT"
           /\ bc_run_state' = "SEARCHING"
           /\ hc_iteration' = 0
        \/ /\ bc_run_state = "SEARCHING"
           /\ bc_run_state' = "DONE"
           /\ hc_iteration = sb_max_iterations

\* the iteration counter of a run moves only at the end of an iteration, by
\* one, with or without a forced swap; the accept/reject step and the return
\* leave it alone
OneIterationAtATime ==
    /\ bc_pc = "plateau_test" => hc_iteration' = hc_iteration + 1
    /\ (bc_run_state = "SEARCHING" /\ bc_pc = "hill_climb") => hc_iteration' = hc_iteration
    /\ bc_run_state = "SEARCHING" => hc_iteration <= sb_max_iterations

\* C21: a break_cipher call in hill-climbing mode with R >= 1 restarts on a
\* ciphertext with a letter returns; each run goes INIT -> SEARCHING -> DONE,
\* makes exactly max_iterations iterations (a forced swap neither adds nor
\* takes one; no early exit), and exactly R runs are made before the result
\* is returned.  Every step of the call is a step of the control flow the
\* specification is fair to.
C21_Terminates ==
    /\ [][SbControl]_vars
    /\ [][HasLetter(bc_ciphertext) => RunStateMachine]_vars
    /\ [][HasLetter(bc_ciphertext) => OneIterationAtATime]_vars
    /\ []((HasLetter(bc_ciphertext) /\ bc_pc = "returned") =>
             /\ bc_run_state = "DONE"
             /\ bc_runs_started = sb_num_restarts
             /\ Len(bc_run_results) = sb_num_restarts)
    /\ (HasLetter(bc_ciphertext) /\ sb_num_restarts >= 1) ~> (bc_pc = "returned")

\* break_cipher(ciphertext, use_frequency_initial=False) has returned after
\* its two runs, both from random mappings
C21_Witness ==
    /\ bc_pc = "returned"
    /\ HasLetter(bc_ciphertext)
    /\ ~bc_use_frequency_initial
    /\ sb_num_restarts = 2
    /\ Len(bc_run_results) = 2
    /\ bc_run_state = "DONE"
    /\ hc_iteration = sb_max_iterations

\* the triple is consistent for the ciphertext of the call: the text is the
\* ciphertext decrypted under the mapping and the score is the score of the
\* text
Consistent(text, mapping, text_score) ==
    /\ text = _decrypt(bc_ciphertext, mapping)
    /\ text_score = score(text)

\* C22: the (text, mapping, score) triple _hill_climb returns, and the one
\* break_cipher returns in hill-climbing mode, is consistent: text =
\* _decrypt(ciphertext, mapping) and score = scorer.score(text); best_mapping,
\* best_text and best_score are only updated together, in _hill_climb (to
\* the triple of the mapping that becomes current) and in break_cipher (to
\* the triple the run returned).
C22_ConsistentTriple ==
    /\ [](bc_run_state \in {"SEARCHING", "DONE"} =>
             Consistent(hc_best_text, hc_best_mapping, hc_best_score))
    /\ [](\A i \in 1..Len(bc_run_results) :
             Consistent(bc_run_results[i].text, bc_run_results[i].mapping,
                        bc_run_results[i].score))
    /\ [](bc_pc = "returned" =>
             Consistent(bc_result.text, bc_result.mapping, bc_result.score))
    /\ [][<<hc_best_mapping, hc_best_text, hc_best_score>>'
             # <<hc_best_mapping, hc_best_text, hc_best_score>> =>
                /\ hc_best_mapping' = hc_current_mapping'
                /\ hc_best_text' = hc_current_text'
                /\ hc_best_score' = hc_current_score']_vars
    /\ [][<<bc_best_mapping, bc_best_text, bc_best_score>>'
             # <<bc_best_mapping, bc_best_text, bc_best_score>> =>
                /\ bc_best_mapping' = hc_best_mapping
                /\ bc_best_text' = hc_best_text
                /\ bc_best_score' = hc_best_score]_vars

\* break_cipher has returned a triple that is the best of a run whose current
\* mapping, at the end, was another one with another text
C22_Witness ==
    /\ bc_pc = "returned"
    /\ HasLetter(bc_ciphertext)
    /\ bc_result.mapping = hc_best_mapping
    /\ hc_current_mapping # hc_best_mapping
    /\ hc_current_text # hc_best_text
    /\ bc_result.text = _decrypt(bc_ciphertext, bc_result.mapping)
    /\ bc_result.score = score(bc_result.text)
=============================================================================
